---- MODULE Spec2Model ----
(***************************************************************************)
(* A model of the two hand-written concurrency primitives of the          *)
(* repository:                                                             *)
(*   MyArc<T>     src/concurrency/src/bin/atomic_arc.rs                    *)
(*   SpinLock<T>  src/concurrency/src/bin/atomic_spinlock.rs               *)
(* Every atomic instruction of the source is one step of the model; the   *)
(* steps of different handles / threads interleave freely.                *)
(***************************************************************************)
EXTENDS Integers, Sequences, FiniteSets, TLC

(***************************************************************************)
(* Bounds of the model.                                                    *)
(***************************************************************************)
MaxHandles == 3
MaxBlocks == 2
MaxValue == 2
RcBits == 3
MaxThreads == 2
MaxIters == 2
CellBits == 3
MaxItems == 3
MaxWorkers == 3
MaxSpurious == 8
SortMaxLen == 4
SortMaxElem == 1
Threshold == 3
MaxNodes == 4
MaxRetries == 3
MaxDelay == 3
DelayBits == 3

Handles == 1..MaxHandles
Blocks == 1..MaxBlocks
Values == 1..MaxValue

\* The null address, the "no value read yet" marker and the outcome of a read
\* of freed memory that is none of the payload values.
NoBlock == 0
NoValue == 0
Garbage == -1

VARIABLES
    \* ---- MyArc ----
    hpc,        \* hpc[h]: where handle h is in its life (see HandleStates)
    ptr,        \* ptr[h]: MyArc.ptr, the block the handle points to
    src,        \* src[h]: the handle h was cloned from (0: made by new)
    old,        \* old[h]: the value fetch_sub returned in h's drop
    seen,       \* the last read through a handle: <<the handle, the value read>>
    ranDtor,    \* ranDtor[h]: h's drop ran the payload's destructor
    ranFree,    \* ranFree[h]: h's drop deallocated the block
    blk,        \* blk[b]: "none" | "live" | "destroyed" | "freed"
    rc,         \* rc[b]: ArcInner.rc
    data,       \* data[b]: ArcInner.data
    newArg,     \* newArg[b]: the value MyArc::new was called with
    wrote,      \* the handles through which the payload has been written
    hview,      \* hview[h]: the payload writes that happen-before the next
                \*   step of the thread owning h (each named by its handle)
    rcpub,      \* rcpub[b]: the payload writes published by the release
                \*   sequence that the last operation on rc[b] belongs to
    rcw         \* the width of ArcInner.rc (of usize on the target), in bits

VARIABLES
    \* ---- SpinLock and the threads using it ----
    locked,     \* SpinLock.locked
    cell,       \* SpinLock.data, the guarded value
    ver,        \* number of writes to the guarded value so far
    pub,        \* the writes to `cell` published by the last store to `locked`
    know,       \* know[t]: the writes to `cell` that happen-before t's next step
    tpc,        \* tpc[t]: where thread t is (see ThreadStates)
    tmp,        \* tmp[t]: the value t read in `*guard += 1`
    left,       \* left[t]: the lock() calls t still has to make
    loops,      \* loops[t]: t calls lock() again and again, without end
    nThreads,   \* T: the number of threads spawned
    iters,      \* K: the iterations of each thread
    spun,       \* parity of the number of polls that found the flag set
    outer,      \* the threads that called lock() again while holding a guard
    weakFailed  \* a compare-and-swap has failed while the flag was false

hbVars == <<wrote, hview, rcpub>>

VARIABLES
    \* ---- the producer and the consumer of example10_atomic_producer_consumer ----
    pdata,      \* the AtomicI32 `data`
    ready,      \* the AtomicBool `ready`
    consumed,   \* the AtomicBool `consumed`
    readyOf,    \* the item whose production made the last ready.store(true)
    seenFlag,   \* the item announced by the flag store the consumer observed
    value,      \* the consumer's `value`
    pcv,        \* pcv[th]: where thread th is in its loop body
    round,      \* round[th]: the iteration thread th is in (1..=MaxItems)
    yielded     \* parity of the number of thread::yield_now() calls so far

VARIABLES
    \* ---- spawn_workers ----
    count,      \* the argument `count`
    swpc,       \* where spawn_workers is: "spawn" | "join" | "returned" | "panicked"
    handles,    \* the vector `handles`: the threads spawned and not yet joined
    wst,        \* wst[w]: the state of the thread spawned in iteration w
    warg,       \* warg[w]: the index captured by the closure of thread w
    wclone,     \* wclone[w]: the clone of shared_data moved into thread w
    calls       \* calls[i]: how often the task has been called with index i

VARIABLES
    \* ---- Mutex<bool> + Condvar (test_condvar_notification) ----
    mtx,        \* the thread holding the mutex, or "none"
    started,    \* the bool inside the mutex
    cvq,        \* the threads blocked in cvar.wait()
    cvpc,       \* cvpc[t]: where thread t is
    spurious    \* the number of spurious wake-ups so far

VARIABLES
    \* ---- sorting.rs ----
    scall,      \* the arguments of the call of partition, the pivot index drawn, and the index returned
    sinput,     \* the slice a sorting function is called with
    sarr,       \* the slice as the call left it
    salgo,      \* the function called, "none" before the call
    sdone       \* how the call ended: "none" | "returned" | "panicked"

VARIABLES
    \* ---- cleaner.rs: clean_empty_directories and the tree under target_root ----
    fparent,    \* fparent[n]: the directory entry n is in (0 is target_root)
    fkind,      \* fkind[n]: "dir" | "file"
    denied,     \* the directory fs::remove_dir refuses to remove (0: none)
    fexists,    \* the entries that exist
    visited,    \* the entries the walker has yielded so far
    cret        \* "running" | "ok": clean_empty_directories has returned Ok(())

VARIABLES
    \* ---- example_condvar: Mutex<bool> + Condvar, a producer and a consumer ----
    ppMtx,      \* the thread holding the mutex, or "none"
    full,       \* the bool inside the mutex: false is "empty", true is "full"
    ppq,        \* the threads blocked in cvar.wait()
    ppc,        \* ppc[t]: where thread t is in its loop body
    ppRound,    \* ppRound[t]: the value of t's loop variable i
    ppSpurious  \* the number of spurious wake-ups so far

VARIABLES
    \* ---- retry_with_backoff ----
    maxRetries,     \* the argument max_retries
    initialDelay,   \* the argument initial_delay, in seconds
    rpc,            \* where the function is: "call" | "sleep" | "double" |
                    \*   "returned" | "panicked" | "unreachable"
    attempt,        \* the loop variable
    delay,          \* the local `delay`, in seconds
    outcomes,       \* the results of the invocations of operation so far
    sleeps,         \* the durations of the sleeps so far
    ret             \* what the function returned

arcVars == <<hpc, ptr, src, old, seen, ranDtor, ranFree, blk, rc, data, newArg, hbVars, rcw>>

lockVars == <<locked, cell, ver, pub, know, tpc, tmp, left, loops, nThreads, iters, spun, outer, weakFailed>>

pcVars == <<pdata, ready, consumed, readyOf, seenFlag, value, pcv, round, yielded>>

swVars == <<count, swpc, handles, wst, warg, wclone, calls>>

cvVars == <<mtx, started, cvq, cvpc, spurious>>

sortVars == <<sinput, sarr, salgo, sdone, scall>>

cleanVars == <<fparent, fkind, denied, fexists, visited, cret>>

ppVars == <<ppMtx, full, ppq, ppc, ppRound, ppSpurious>>

retryVars == <<maxRetries, initialDelay, rpc, attempt, delay, outcomes, sleeps, ret>>

vars == <<arcVars, lockVars, pcVars, swVars, cvVars, sortVars, cleanVars, ppVars, retryVars>>

\* What the steps of one component leave alone: the other components.
notArcVars == <<lockVars, pcVars, swVars, cvVars, sortVars, cleanVars, ppVars, retryVars>>
notLockVars == <<arcVars, pcVars, swVars, cvVars, sortVars, cleanVars, ppVars, retryVars>>
notPCVars == <<arcVars, lockVars, swVars, cvVars, sortVars, cleanVars, ppVars, retryVars>>
notSWVars == <<arcVars, lockVars, pcVars, cvVars, sortVars, cleanVars, ppVars, retryVars>>
notCVVars == <<arcVars, lockVars, pcVars, swVars, sortVars, cleanVars, ppVars, retryVars>>
notSortVars == <<arcVars, lockVars, pcVars, swVars, cvVars, cleanVars, ppVars, retryVars>>
notCleanVars == <<arcVars, lockVars, pcVars, swVars, cvVars, sortVars, ppVars, retryVars>>
notPPVars == <<arcVars, lockVars, pcVars, swVars, cvVars, sortVars, cleanVars, retryVars>>
notRetryVars == <<arcVars, lockVars, pcVars, swVars, cvVars, sortVars, cleanVars, ppVars>>

HandleStates == {"none", "cloning", "live", "fence", "destroy", "dealloc", "dropped"}

(***************************************************************************)
(* MyArc                                                                   *)
(***************************************************************************)

\* AtomicUsize arithmetic wraps: the counter is a usize, rcw bits wide.
RcModulus == 2 ^ rcw

\* A counter that starts at zero, as if the first handle did not count.
RcInitZero == 1 - 1

\* AtomicUsize::new(1) in MyArc::new.
RcInit == 1

\* A clone that does not count itself.
FetchAddLost(x) == x

\* A clone that counts for two.
FetchAddTwo(x) == (x + 2) % RcModulus

\* A counter that saturates at its maximum in place of wrapping.
FetchAddSaturating(x) == IF x + 1 >= RcModulus THEN x ELSE x + 1

\* fetch_add(1, Relaxed): the new value of the counter.
FetchAdd(x) == (x + 1) % RcModulus

\* A release that counts for two.
FetchSubTwo(x) == (x - 2) % RcModulus

\* fetch_sub(1, Release): the new value of the counter.
FetchSub(x) == (x - 1) % RcModulus

\* The value fetch_sub returns taken for the value after the decrement.
IsLastPostValue(prev) == prev = 0

\* Every release destroys.
IsLastAlways(prev) == prev >= 1

\* `if inner.rc.fetch_sub(1, Release) != 1 { return; }`: whether the thread
\* that got `prev` back from fetch_sub goes on to destroy the block.
IsLast(prev) == prev = 1

\* A clone that points to another block than its source.
CloneTargetOther(h) == IF ptr[h] = 1 THEN 2 ELSE 1

\* `MyArc { ptr: self.ptr }`: the block a clone of h points to.
CloneTarget(h) == ptr[h]

\* The first handle / block not used so far (allocation order).
FreshHandle == CHOOSE h \in Handles : hpc[h] = "none" /\ \A g \in Handles : g < h => hpc[g] # "none"
FreshBlock == CHOOSE b \in Blocks : blk[b] = "none" /\ \A c \in Blocks : c < b => blk[c] # "none"

\* A clone() of h2 from h is between its fetch_add and its return: h is borrowed.
Borrowed(h) == \E h2 \in Handles : hpc[h2] = "cloning" /\ src[h2] = h

\* What reading the payload of block b can give: the payload while it is alive,
\* anything once it has been destroyed or freed (use after free).
DerefOutcomes(b) == IF blk[b] = "live" THEN {data[b]} ELSE Values \cup {Garbage}

\* A relaxed decrement: it publishes nothing.
FetchSubRelaxed(h) == {}

\* fetch_sub(1, Release), line 51: the decrement publishes what the thread
\* owning h has written or knows of. (A read-modify-write continues the release
\* sequences it adds to: what earlier decrements published stays published.)
FetchSubPublishes(h) == hview[h]

\* No fence: the destroying thread learns nothing.
FenceNone(h) == hview[h]

\* fence(Acquire), line 56: the thread learns what was published by the release
\* sequence its own fetch_sub read from.
FenceView(h) == hview[h] \cup rcpub[ptr[h]]

ArcInitCommon ==
    /\ hpc = [h \in Handles |-> "none"]
    /\ ptr = [h \in Handles |-> NoBlock]
    /\ src = [h \in Handles |-> 0]
    /\ old = [h \in Handles |-> 0]
    /\ seen = <<0, NoValue>>
    /\ ranDtor = [h \in Handles |-> FALSE]
    /\ ranFree = [h \in Handles |-> FALSE]
    /\ blk = [b \in Blocks |-> "none"]
    /\ rc = [b \in Blocks |-> 0]
    /\ data = [b \in Blocks |-> NoValue]
    /\ newArg = [b \in Blocks |-> NoValue]
    /\ wrote = {}
    /\ hview = [h \in Handles |-> {}]
    /\ rcpub = [b \in Blocks |-> {}]

\* A target whose usize holds more than the handles the program makes.
ArcInit ==
    /\ ArcInitCommon
    /\ rcw = RcBits

\* Any target: usize may be narrower than the number of handles made.
ArcInitAnyWidth ==
    /\ ArcInitCommon
    /\ rcw \in 1..RcBits

\* MyArc::new(v): Box::new(ArcInner { rc: 1, data: v }), handle h owns it.
ArcNew(v) ==
    /\ \E h \in Handles : hpc[h] = "none"
    /\ \E b \in Blocks : blk[b] = "none"
    /\ LET h == FreshHandle
           b == FreshBlock
       IN /\ hpc' = [hpc EXCEPT ![h] = "live"]
          /\ ptr' = [ptr EXCEPT ![h] = b]
          /\ blk' = [blk EXCEPT ![b] = "live"]
          /\ rc' = [rc EXCEPT ![b] = RcInit]
          /\ data' = [data EXCEPT ![b] = v]
          /\ newArg' = [newArg EXCEPT ![b] = v]
    /\ UNCHANGED <<src, old, seen, ranDtor, ranFree, hbVars>>
    /\ UNCHANGED rcw
    /\ UNCHANGED notArcVars

\* clone(), first half: inner.rc.fetch_add(1, Relaxed) through &self.
CloneFetchAdd(h) ==
    /\ hpc[h] = "live"
    /\ \E h2 \in Handles : hpc[h2] = "none"
    /\ LET h2 == FreshHandle
       IN /\ hpc' = [hpc EXCEPT ![h2] = "cloning"]
          /\ src' = [src EXCEPT ![h2] = h]
    /\ rc' = [rc EXCEPT ![ptr[h]] = FetchAdd(rc[ptr[h]])]
    /\ UNCHANGED <<ptr, old, seen, ranDtor, ranFree, blk, data, newArg, hbVars>>
    /\ UNCHANGED rcw
    /\ UNCHANGED notArcVars

\* clone(), second half: return MyArc { ptr: self.ptr }.
CloneReturn(h2) ==
    /\ hpc[h2] = "cloning"
    /\ hpc' = [hpc EXCEPT ![h2] = "live"]
    /\ ptr' = [ptr EXCEPT ![h2] = CloneTarget(src[h2])]
    /\ hview' = [hview EXCEPT ![h2] = hview[src[h2]]]
    /\ UNCHANGED <<src, old, seen, ranDtor, ranFree, blk, rc, data, newArg, wrote, rcpub>>
    /\ UNCHANGED rcw
    /\ UNCHANGED notArcVars

\* deref(): &inner.data, read by the caller.
Deref(h) ==
    /\ hpc[h] = "live"
    /\ ptr[h] # NoBlock
    /\ \E v \in DerefOutcomes(ptr[h]) : seen' = <<h, v>>
    /\ UNCHANGED <<hpc, ptr, src, old, ranDtor, ranFree, blk, rc, data, newArg, hbVars>>
    /\ UNCHANGED rcw
    /\ UNCHANGED notArcVars

\* drop(), line 51: fetch_sub(1, Release) and the comparison with 1. The handle
\* is owned by the caller: no clone() or deref() of it is in progress.
DropFetchSub(h) ==
    /\ hpc[h] = "live"
    /\ ptr[h] # NoBlock
    /\ ~Borrowed(h)
    /\ old' = [old EXCEPT ![h] = rc[ptr[h]]]
    /\ rc' = [rc EXCEPT ![ptr[h]] = FetchSub(rc[ptr[h]])]
    /\ hpc' = [hpc EXCEPT ![h] = IF IsLast(rc[ptr[h]]) THEN "fence" ELSE "dropped"]
    /\ rcpub' = [rcpub EXCEPT ![ptr[h]] = @ \cup FetchSubPublishes(h)]
    /\ UNCHANGED <<ptr, src, seen, ranDtor, ranFree, blk, data, newArg, wrote, hview>>
    /\ UNCHANGED rcw
    /\ UNCHANGED notArcVars

\* A drop() that waits, before destroying, until no other drop() is destroying.
DropFenceWait(h) ==
    /\ hpc[h] = "fence"
    /\ \A g \in Handles \ {h} : hpc[g] \notin {"destroy", "dealloc"}
    /\ hpc' = [hpc EXCEPT ![h] = "destroy"]
    /\ hview' = [hview EXCEPT ![h] = FenceView(h)]
    /\ UNCHANGED <<ptr, src, old, seen, ranDtor, ranFree, blk, rc, data, newArg, wrote, rcpub>>
    /\ UNCHANGED rcw
    /\ UNCHANGED notArcVars

\* drop(), line 56: fence(Acquire).
DropFence(h) ==
    /\ hpc[h] = "fence"
    /\ hpc' = [hpc EXCEPT ![h] = "destroy"]
    /\ hview' = [hview EXCEPT ![h] = FenceView(h)]
    /\ UNCHANGED <<ptr, src, old, seen, ranDtor, ranFree, blk, rc, data, newArg, wrote, rcpub>>
    /\ UNCHANGED rcw
    /\ UNCHANGED notArcVars

\* drop(), line 61: drop(Box::from_raw(..)) runs the destructor of ArcInner,
\* that is of the payload ...
DropPayload(h) ==
    /\ hpc[h] = "destroy"
    /\ hpc' = [hpc EXCEPT ![h] = "dealloc"]
    /\ ranDtor' = [ranDtor EXCEPT ![h] = TRUE]
    /\ blk' = [blk EXCEPT ![ptr[h]] = IF @ = "live" THEN "destroyed" ELSE @]
    /\ UNCHANGED <<ptr, src, old, seen, ranFree, rc, data, newArg, hbVars>>
    /\ UNCHANGED rcw
    /\ UNCHANGED notArcVars

\* ... and then gives the allocation back.
DropDealloc(h) ==
    /\ hpc[h] = "dealloc"
    /\ hpc' = [hpc EXCEPT ![h] = "dropped"]
    /\ ranFree' = [ranFree EXCEPT ![h] = TRUE]
    /\ blk' = [blk EXCEPT ![ptr[h]] = "freed"]
    /\ UNCHANGED <<ptr, src, old, seen, ranDtor, rc, data, newArg, hbVars>>
    /\ UNCHANGED rcw
    /\ UNCHANGED notArcVars

\* The owner of handle h writes to the payload (a payload with interior
\* mutability, reached through deref()); one write per handle is followed.
PayloadWrite(h) ==
    /\ hpc[h] = "live"
    /\ ptr[h] # NoBlock
    /\ h \notin wrote
    /\ wrote' = wrote \cup {h}
    /\ hview' = [hview EXCEPT ![h] = @ \cup {h}]
    /\ UNCHANGED <<hpc, ptr, src, old, seen, ranDtor, ranFree, blk, rc, data, newArg, rcpub>>
    /\ UNCHANGED rcw
    /\ UNCHANGED notArcVars

ArcNext ==
    \/ \E v \in Values : ArcNew(v)
    \/ \E h \in Handles : CloneFetchAdd(h)
    \/ \E h \in Handles : CloneReturn(h)
    \/ \E h \in Handles : Deref(h)
    \/ \E h \in Handles : DropFetchSub(h)
    \/ \E h \in Handles : DropFence(h)
    \/ \E h \in Handles : DropPayload(h)
    \/ \E h \in Handles : DropDealloc(h)

(***************************************************************************)
(* MyArc: properties                                                       *)
(***************************************************************************)

\* The block handle h refers to (a clone under construction: its source's).
BlockOf(h) == IF hpc[h] = "cloning" THEN ptr[src[h]] ELSE ptr[h]

\* The handle made by new() from which h derives, through any chain of clones.
RECURSIVE Root(_)
Root(h) == IF src[h] = 0 THEN h ELSE Root(src[h])

\* The handles ever made for block b, and those among them not yet released.
HandlesOf(b) == {h \in Handles : hpc[h] # "none" /\ BlockOf(h) = b}
Unreleased(b) == {h \in HandlesOf(b) : hpc[h] \in {"cloning", "live"}}

\* drop() of h has executed its fetch_sub.
Released(h) == hpc[h] \in {"fence", "destroy", "dealloc", "dropped"}

\* drop() of h is past its fetch_sub and has not returned.
MidDrop(h) == hpc[h] \in {"fence", "destroy", "dealloc"}

\* How often the payload's destructor ran on block b, and how often b was freed.
DtorRuns(b) == Cardinality({h \in HandlesOf(b) : ranDtor[h]})
FreeRuns(b) == Cardinality({h \in HandlesOf(b) : ranFree[h]})

\* The releases that took the count of b from 1 to 0.
ZeroTransitions(b) == {h \in HandlesOf(b) : Released(h) /\ old[h] = 1}

\* Every handle of b has been dropped, and every drop() has returned.
AllDropped(b) == blk[b] # "none" /\ \A h \in HandlesOf(b) : hpc[h] = "dropped"

\* C1: once all N handles of a block have been dropped, in whatever order their
\* drop() calls interleaved, the payload's destructor and the deallocation have
\* each happened exactly once; neither ever happens twice.
C1_ExactlyOnce ==
    \A b \in Blocks :
        /\ DtorRuns(b) <= 1
        /\ FreeRuns(b) <= 1
        /\ AllDropped(b) => (DtorRuns(b) = 1 /\ FreeRuns(b) = 1)

C1_Witness ==
    \E b \in Blocks :
        /\ AllDropped(b)
        /\ Cardinality(HandlesOf(b)) = 3
        /\ DtorRuns(b) = 1
        /\ \E h \in HandlesOf(b) : old[h] = 2 /\ hpc[src[h]] = "dropped" /\ old[src[h]] = 3

C6_DestroyerSelection ==
    \A h \in Handles :
        /\ MidDrop(h) => old[h] = 1
        /\ (ranDtor[h] \/ ranFree[h]) => old[h] = 1
        /\ hpc[h] = "dropped" => ((ranDtor[h] /\ ranFree[h]) <=> old[h] = 1)
        /\ (Released(h) /\ old[h] > 1) => (hpc[h] = "dropped" /\ ~ranDtor[h] /\ ~ranFree[h])

C6_Witness ==
    \E h \in Handles, g \in Handles :
        /\ ptr[h] = ptr[g]
        /\ hpc[h] = "dropped" /\ old[h] = 2 /\ ~ranDtor[h] /\ ~ranFree[h]
        /\ hpc[g] = "dropped" /\ old[g] = 1 /\ ranDtor[g] /\ ranFree[g]

\* C9: with K clones made and those K clones dropped again, in any order, the
\* block is not destroyed while the handle made by new() is held; and, whenever
\* no drop() is part-way through, the block has been destroyed and freed if and
\* only if a release has brought its count to zero.
C9_Accounting ==
    /\ \A h \in Handles :
           (src[h] = 0 /\ hpc[h] = "live") =>
               (blk[ptr[h]] = "live" /\ rc[ptr[h]] >= 1)
    /\ \A b \in Blocks :
           (blk[b] # "none" /\ \A h \in HandlesOf(b) : ~MidDrop(h)) =>
               (blk[b] = "freed" <=> rc[b] = 0)

C9_Witness ==
    \E h \in Handles :
        /\ src[h] = 0 /\ hpc[h] = "live"
        /\ rc[ptr[h]] = 1 /\ blk[ptr[h]] = "live"
        /\ Cardinality({g \in Handles : src[g] # 0 /\ ptr[g] = ptr[h] /\ hpc[g] = "dropped"}) = 2

\* C10: every handle obtained by clone(), directly or through other clones,
\* points to the block of the handle new(v) made; what is read through a live
\* handle is v; the payload of a block is v as long as the block lives.
C10_Aliasing ==
    /\ \A h \in Handles :
           hpc[h] \notin {"none", "cloning"} =>
               /\ ptr[h] = ptr[Root(h)]
               /\ blk[ptr[h]] # "none"
    /\ seen[1] # 0 => seen[2] = newArg[ptr[seen[1]]]
    /\ \A b \in Blocks : blk[b] = "live" => data[b] = newArg[b]

C10_Witness ==
    \E h \in Handles :
        /\ src[h] # 0 /\ src[src[h]] # 0
        /\ hpc[h] = "live"
        /\ seen = <<h, newArg[ptr[Root(h)]]>>
        /\ seen[2] = 2

\* The handles that exist for block b: made by new() or returned by clone(),
\* and not yet given to drop().
LiveHandles(b) == {h \in Handles : hpc[h] = "live" /\ ptr[h] = b}

\* No clone() and no drop() of a handle of block b is part-way through.
Quiescent(b) == \A h \in HandlesOf(b) : hpc[h] \in {"live", "dropped"}

\* C24 as stated: in every state where no clone() or drop() is part-way
\* through, the count of a block equals the number of handles that exist for it.
C24_CountIsLiveHandles ==
    \A b \in Blocks :
        (blk[b] # "none" /\ Quiescent(b)) => rc[b] = Cardinality(LiveHandles(b))

\* C24, amended: right after new(v) the count is 1 and one handle exists; while
\* the block is alive and no clone() or drop() is part-way through, the count
\* equals the number of handles that exist modulo 2^w, w the width of the
\* counter, hence that number itself while fewer than 2^w handles exist; the
\* fetch_add of clone() adds 1 and the fetch_sub of drop() subtracts 1, both
\* modulo 2^w, no other step of them touches the count, and none changes the
\* payload value.
C24_CountIsLiveHandlesModuloWidth ==
    /\ [](\A b \in Blocks :
             (blk[b] = "live" /\ Quiescent(b)) =>
                 /\ rc[b] = Cardinality(LiveHandles(b)) % RcModulus
                 /\ Cardinality(LiveHandles(b)) < RcModulus =>
                        rc[b] = Cardinality(LiveHandles(b)))
    /\ [][\A b \in Blocks :
             (blk[b] = "none" /\ blk'[b] # "none") =>
                 (rc'[b] = 1 /\ Cardinality(LiveHandles(b)') = 1)]_vars
    /\ [][\A h \in Handles :
             /\ (hpc[h] = "none" /\ hpc'[h] = "cloning") =>
                    /\ rc' = [rc EXCEPT ![ptr[src'[h]]] = (@ + 1) % RcModulus]
                    /\ data' = data
             /\ (hpc[h] = "cloning" /\ hpc'[h] # "cloning") =>
                    (rc' = rc /\ data' = data)
             /\ (hpc[h] = "live" /\ Released(h)') =>
                    /\ rc' = [rc EXCEPT ![ptr[h]] = (@ - 1) % RcModulus]
                    /\ data' = data
             /\ (MidDrop(h) /\ hpc'[h] # hpc[h]) =>
                    (rc' = rc /\ data' = data)]_vars

\* Three handles exist for a block whose one-bit counter has wrapped twice.
C24_Witness ==
    \E b \in Blocks :
        /\ blk[b] = "live" /\ Quiescent(b)
        /\ Cardinality(LiveHandles(b)) = 3
        /\ rcw = 1 /\ rc[b] = 1

\* C25: clone() has no overflow guard. A clone of a live handle can always be
\* made and always returns; a clone made when the count is 2^w - 1 leaves the
\* count at 0 and returns its handle like any other; a drop() that follows,
\* finding the count at 0, gets 0 from fetch_sub, not the 1 the drop() of a
\* last handle gets, and returns without destroying.
C25_CloneWrapsUnguarded ==
    /\ [](\A h \in Handles :
             /\ (hpc[h] = "live" /\ \E g \in Handles : hpc[g] = "none") =>
                    ENABLED CloneFetchAdd(h)
             /\ hpc[h] = "cloning" => ENABLED CloneReturn(h))
    /\ [][\A h \in Handles :
             (hpc[h] = "none" /\ hpc'[h] = "cloning"
                 /\ rc[ptr[src'[h]]] = RcModulus - 1) =>
                 rc'[ptr[src'[h]]] = 0]_vars
    /\ [][\A h \in Handles :
             (hpc[h] = "live" /\ Released(h)' /\ rc[ptr[h]] = 0) =>
                 /\ old'[h] = 0
                 /\ hpc'[h] = "dropped"
                 /\ rc'[ptr[h]] = RcModulus - 1]_vars
    /\ [](\A h \in Handles :
             (Released(h) /\ old[h] # 1) => (~ranDtor[h] /\ ~ranFree[h]))

\* The second handle of a block was made with the one-bit count at its
\* maximum, 1; the count wrapped to 0, and the drop() of the first handle then
\* got 0 from fetch_sub and returned, the second handle still alive.
C25_Witness ==
    \E h \in Handles, g \in Handles :
        /\ rcw = 1
        /\ src[g] = h /\ hpc[g] = "live"
        /\ hpc[h] = "dropped" /\ old[h] = 0
        /\ rc[ptr[g]] = 1 /\ blk[ptr[g]] = "live"

\* The writes made to the payload of block b.
WritesTo(b) == {w \in wrote : ptr[w] = b}

\* drop() of h is past its fence: it is about to destroy, or has destroyed.
Destroying(h) == hpc[h] \in {"destroy", "dealloc"} \/ ranDtor[h]

\* C13: when a drop() destroys the payload, every write made to the payload,
\* by whichever thread, before that thread's own decrement, happens-before the
\* destruction: from the fence on, the destroying thread knows of all of them.
C13_DestructionVisibility ==
    \A h \in Handles : Destroying(h) => WritesTo(ptr[h]) \subseteq hview[h]

\* The destroying handle is the one made by new(); its two clones were handed
\* out, written through and released before it; it never wrote itself.
C13_Witness ==
    \E h \in Handles :
        /\ hpc[h] = "destroy"
        /\ h \notin wrote
        /\ Cardinality(WritesTo(ptr[h])) = 2
        /\ \E g \in WritesTo(ptr[h]) : src[g] = h /\ old[g] = 3

\* clone() or drop() of h has begun and has not returned.
MidOp(h) == hpc[h] \in {"cloning", "fence", "destroy", "dealloc"}

\* The next step of the operation in progress on h.
OpStep(h) == CloneReturn(h) \/ DropFence(h) \/ DropPayload(h) \/ DropDealloc(h)

\* The steps the operation in progress on h has left, at most: clone() is a
\* fetch_add and a return; drop() a fetch_sub, a fence, the destructor and the
\* deallocation; new() and deref() are a single step each.
StepsLeft(h) ==
    CASE hpc[h] = "cloning" -> 1
      [] hpc[h] = "fence" -> 3
      [] hpc[h] = "destroy" -> 2
      [] hpc[h] = "dealloc" -> 1
      [] OTHER -> 0

\* C14: no operation of MyArc waits for another thread: an operation that has
\* begun can take its next step whatever the other handles are doing, every
\* such step leaves it with fewer steps to go, the steps of the other handles
\* do not set it back, and a live handle can always be read, and released
\* unless a clone() is borrowing it.
C14_NeverBlocks ==
    /\ [](\A h \in Handles :
             /\ MidOp(h) => ENABLED OpStep(h)
             /\ hpc[h] = "live" => ENABLED Deref(h)
             /\ (hpc[h] = "live" /\ ~Borrowed(h)) => ENABLED DropFetchSub(h))
    /\ [][\A h \in Handles :
             MidOp(h) => (hpc'[h] = hpc[h] \/ StepsLeft(h)' < StepsLeft(h))]_vars

\* A drop() is at its fence while a clone() of a handle of another block is in
\* progress.
C14_Witness ==
    \E h \in Handles, g \in Handles :
        /\ hpc[h] = "fence"
        /\ hpc[g] = "cloning" /\ hpc[src[g]] = "live" /\ Borrowed(src[g])

(***************************************************************************)
(* SpinLock and SpinLockGuard                                              *)
(*                                                                         *)
(* The threads are those of example_spinlock / test_spinlock_concurrency:  *)
(* T threads, each calling lock() K times. Inside the critical section a   *)
(* thread runs `*guard += 1` (a read, then a write), or leaves at once, or *)
(* panics; in each case the guard is dropped. `locked` is an atomic: its   *)
(* operations are totally ordered. `cell` is plain memory: a thread may    *)
(* only rely on the writes that happen-before its access (know[t]), and an *)
(* access that is not ordered after the last write is a data race.         *)
(***************************************************************************)
Threads == 1..MaxThreads

ThreadStates == {"idle", "spin", "cas", "held", "write", "wrote", "panicked"}

\* SpinLock::new(0) in example_spinlock and test_spinlock_concurrency.
CellInit == 0

\* The guarded counter is an i32; CellBits is its width in the model.
CellMax == 2 ^ (CellBits - 1) - 1

\* i32 addition as a build without overflow checks computes it: two's
\* complement wrap-around. (A build with overflow checks panics instead: that
\* is PanicUnwind, which a thread about to write can always take.)
WrapI32(x) == ((x + 2 ^ (CellBits - 1)) % (2 ^ CellBits)) - 2 ^ (CellBits - 1)

\* What a racy read of the guarded value may give.
RacyValues == 0..(MaxThreads * MaxIters)

\* A guard of the lock is live in thread t.
HoldsGuard(t) == tpc[t] \in {"held", "write", "wrote"} \/ t \in outer

\* Thread t is inside lock().
InLock(t) == tpc[t] \in {"spin", "cas"}

\* Thread t has nothing left to do.
Finished(t) == (tpc[t] = "idle" /\ left[t] = 0) \/ tpc[t] = "panicked"

\* A swap in place of the compare-and-swap: it "succeeds" whatever the flag is.
CasBlind == TRUE

\* A compare-and-swap that expects the flag to be true.
CasExpectsTrue == locked = TRUE

\* compare_exchange_weak(false, true, Acquire, Relaxed): whether it can succeed.
CasSucceeds == locked = FALSE

\* A relaxed compare-and-swap: the thread learns nothing from the store it read.
AcquireViewRelaxed(t) == know[t]

\* Acquire on the successful compare-and-swap: the thread learns the writes
\* published by the store it read from.
AcquireView(t) == IF pub > know[t] THEN pub ELSE know[t]

\* A guard that stores the wrong value.
GuardStoreTrue == TRUE

\* A relaxed store: it publishes nothing of what the thread wrote.
ReleaseViewRelaxed(t) == 0

\* store(false, Release) in Drop for SpinLockGuard: the value stored and the
\* writes it publishes.
GuardStore == FALSE
ReleaseView(t) == know[t]

\* *guard (Deref): the value read.
ReadOutcomes(t) == IF know[t] = ver THEN {cell} ELSE RacyValues

\* A lock that is born locked.
NewLockedTrue == TRUE

\* SpinLock::new, line 46: locked: AtomicBool::new(false).
NewLocked == FALSE

LockInitCommon ==
    /\ locked = NewLocked
    /\ cell = CellInit
    /\ ver = 0
    /\ pub = 0
    /\ know = [t \in Threads |-> 0]
    /\ tpc = [t \in Threads |-> "idle"]
    /\ tmp = [t \in Threads |-> 0]
    /\ spun = FALSE
    /\ outer = {}
    /\ weakFailed = FALSE
    /\ nThreads \in 0..MaxThreads
    /\ iters \in 0..MaxIters
    /\ left = [t \in Threads |-> IF t <= nThreads THEN iters ELSE 0]

\* The programs of the source: every thread makes K calls and ends.
LockInit ==
    /\ LockInitCommon
    /\ loops = [t \in Threads |-> FALSE]

\* Some of the threads never stop calling lock().
LockInitLoop ==
    /\ LockInitCommon
    /\ loops \in [Threads -> BOOLEAN]
    /\ \A t \in Threads : loops[t] => left[t] > 0

\* The state of the lock component while only MyArc is exercised.
LockIdle ==
    /\ LockInitCommon
    /\ nThreads = 0
    /\ iters = 0
    /\ loops = [t \in Threads |-> FALSE]

\* A thread enters lock().
LockCall(t) ==
    /\ tpc[t] = "idle"
    /\ left[t] > 0
    /\ tpc' = [tpc EXCEPT ![t] = "spin"]
    /\ left' = [left EXCEPT ![t] = IF loops[t] THEN @ ELSE @ - 1]
    /\ UNCHANGED <<locked, cell, ver, pub, know, tmp, loops, nThreads, iters, spun>>
    /\ UNCHANGED <<outer, weakFailed>>
    /\ UNCHANGED notLockVars

\* A lock without the read-only spin (test-and-set): the thread goes to its
\* compare-and-swap whatever the load returned.
SpinLoadBlind(t) ==
    /\ tpc[t] = "spin"
    /\ tpc' = [tpc EXCEPT ![t] = "cas"]
    /\ UNCHANGED <<locked, cell, ver, pub, know, tmp, left, loops, nThreads, iters, spun>>
    /\ UNCHANGED <<outer, weakFailed>>
    /\ UNCHANGED notLockVars

\* lock(), line 54: while self.locked.load(Relaxed) { spin_loop() }. A poll
\* that finds the flag set changes nothing but spun, which makes the poll a
\* step of the thread in its own right.
SpinLoad(t) ==
    /\ tpc[t] = "spin"
    /\ tpc' = [tpc EXCEPT ![t] = IF locked THEN "spin" ELSE "cas"]
    /\ spun' = IF locked THEN ~spun ELSE spun
    /\ UNCHANGED <<locked, cell, ver, pub, know, tmp, left, loops, nThreads, iters>>
    /\ UNCHANGED <<outer, weakFailed>>
    /\ UNCHANGED notLockVars

\* lock(), lines 59-64: the compare-and-swap succeeds and lock() returns a guard.
CasOk(t) ==
    /\ tpc[t] = "cas"
    /\ CasSucceeds
    /\ locked' = TRUE
    /\ know' = [know EXCEPT ![t] = AcquireView(t)]
    /\ tpc' = [tpc EXCEPT ![t] = "held"]
    /\ UNCHANGED <<cell, ver, pub, tmp, left, loops, nThreads, iters, spun>>
    /\ UNCHANGED <<outer, weakFailed>>
    /\ UNCHANGED notLockVars

\* A lock that takes a failed compare-and-swap for a success: the thread gets
\* a guard though it did not change the flag.
CasFailReturnsGuard(t) ==
    /\ tpc[t] = "cas"
    /\ tpc' = [tpc EXCEPT ![t] = "held"]
    /\ weakFailed' = (weakFailed \/ ~locked)
    /\ UNCHANGED <<locked, cell, ver, pub, know, tmp, left, loops, nThreads, iters, spun>>
    /\ UNCHANGED outer
    /\ UNCHANGED notLockVars

\* A failed compare-and-swap that writes: it stores false to the flag.
CasFailClears(t) ==
    /\ tpc[t] = "cas"
    /\ tpc' = [tpc EXCEPT ![t] = "spin"]
    /\ locked' = FALSE
    /\ weakFailed' = (weakFailed \/ ~locked)
    /\ UNCHANGED <<cell, ver, pub, know, tmp, left, loops, nThreads, iters, spun>>
    /\ UNCHANGED outer
    /\ UNCHANGED notLockVars

\* lock(), lines 59-66: the compare-and-swap fails (the flag is true, or the
\* weak compare-and-swap fails spuriously) and the loop starts again.
CasFail(t) ==
    /\ tpc[t] = "cas"
    /\ tpc' = [tpc EXCEPT ![t] = "spin"]
    /\ weakFailed' = (weakFailed \/ ~locked)
    /\ UNCHANGED <<locked, cell, ver, pub, know, tmp, left, loops, nThreads, iters, spun>>
    /\ UNCHANGED outer
    /\ UNCHANGED notLockVars

\* `*guard += 1`, the read (Deref / DerefMut of the guard).
GuardRead(t) ==
    /\ tpc[t] = "held"
    /\ \E v \in ReadOutcomes(t) : tmp' = [tmp EXCEPT ![t] = v]
    /\ tpc' = [tpc EXCEPT ![t] = "write"]
    /\ UNCHANGED <<locked, cell, ver, pub, know, left, loops, nThreads, iters, spun>>
    /\ UNCHANGED <<outer, weakFailed>>
    /\ UNCHANGED notLockVars

\* `*guard += 1`, the write (DerefMut of the guard); the temporary is dead after it.
GuardWrite(t) ==
    /\ tpc[t] = "write"
    /\ cell' = WrapI32(tmp[t] + 1)
    /\ ver' = ver + 1
    /\ know' = [know EXCEPT ![t] = ver + 1]
    /\ tmp' = [tmp EXCEPT ![t] = 0]
    /\ tpc' = [tpc EXCEPT ![t] = "wrote"]
    /\ UNCHANGED <<locked, pub, left, loops, nThreads, iters, spun>>
    /\ UNCHANGED <<outer, weakFailed>>
    /\ UNCHANGED notLockVars

\* A guard without a Drop implementation.
GuardReleaseNone(t) == UNCHANGED <<locked, pub>>

\* Drop for SpinLockGuard: self.lock.locked.store(false, Release).
GuardRelease(t) ==
    /\ locked' = GuardStore
    /\ pub' = ReleaseView(t)

\* The guard goes out of scope: at the end of the iteration, or at once
\* (nothing written, an early return).
GuardDrop(t) ==
    /\ tpc[t] \in {"held", "wrote"}
    /\ GuardRelease(t)
    /\ tpc' = [tpc EXCEPT ![t] = "idle"]
    /\ UNCHANGED <<cell, ver, know, tmp, left, loops, nThreads, iters, spun>>
    /\ UNCHANGED <<outer, weakFailed>>
    /\ UNCHANGED notLockVars

\* The critical section panics and the thread unwinds: the guard, a local of the
\* closure, is dropped on the way out; the thread is gone.
PanicUnwind(t) ==
    /\ tpc[t] \in {"held", "write", "wrote"}
    /\ GuardRelease(t)
    /\ tpc' = [tpc EXCEPT ![t] = "panicked"]
    /\ UNCHANGED <<cell, ver, know, tmp, left, loops, nThreads, iters, spun>>
    /\ UNCHANGED <<outer, weakFailed>>
    /\ UNCHANGED notLockVars

\* A thread calls lock() on the lock whose guard it holds: the guard stays
\* alive, in the caller's frame, for as long as the call lasts.
ReLock(t) ==
    /\ tpc[t] = "held"
    /\ t \notin outer
    /\ outer' = outer \cup {t}
    /\ tpc' = [tpc EXCEPT ![t] = "spin"]
    /\ UNCHANGED <<locked, cell, ver, pub, know, tmp, left, loops, nThreads, iters, spun>>
    /\ UNCHANGED weakFailed
    /\ UNCHANGED notLockVars

LockNext ==
    \/ \E t \in Threads : LockCall(t)
    \/ \E t \in Threads : SpinLoad(t)
    \/ \E t \in Threads : CasOk(t)
    \/ \E t \in Threads : CasFail(t)
    \/ \E t \in Threads : GuardRead(t)
    \/ \E t \in Threads : GuardWrite(t)
    \/ \E t \in Threads : GuardDrop(t)
    \/ \E t \in Threads : PanicUnwind(t)

(***************************************************************************)
(* SpinLock: properties                                                    *)
(***************************************************************************)

Holders == {t \in Threads : HoldsGuard(t)}

\* C3: at most one guard of the lock is live, whatever the number of threads
\* calling lock(); the flag is true while a guard is live.
C3_MutualExclusion ==
    /\ Cardinality(Holders) <= 1
    /\ Holders # {} => locked = TRUE

C3_Witness ==
    \E t \in Threads, u \in Threads :
        /\ tpc[t] = "write"
        /\ tpc[u] = "cas"
        /\ left[t] = 0 /\ iters = 2

\* Every thread has finished, and each has run  lock(); read; write counter + 1;
\* drop  K times: T * K writes in all.
AllIncremented == (\A t \in Threads : Finished(t)) /\ ver = nThreads * iters

\* C4 as stated: for every T >= 0 and K >= 0, when all T threads have finished
\* their K increments the counter is exactly T * K.
C4_NoLostUpdate == AllIncremented => cell = nThreads * iters

\* C4, amended: the same, for the T and K whose product an i32 can hold.
C4_NoLostUpdateInRange ==
    (AllIncremented /\ nThreads * iters <= CellMax) => cell = nThreads * iters

C4_Witness ==
    /\ AllIncremented
    /\ nThreads = 2 /\ iters = 1
    /\ cell = 2

\* C8: whichever way a guard was destroyed (end of scope after a write, at once
\* without a write, unwinding from a panic), once no guard is live the flag is
\* false, and a thread at its compare-and-swap can then acquire the lock.
C8_GuardRelease ==
    Holders = {} =>
        /\ locked = FALSE
        /\ \A u \in Threads : tpc[u] = "cas" => ENABLED CasOk(u)

C8_Witness ==
    \E t \in Threads, u \in Threads :
        /\ tpc[t] = "panicked"
        /\ tpc[u] = "held" /\ left[u] = iters - 1
        /\ ver = 1 /\ know[u] = 1

\* A step that changes the flag from false to true is the successful
\* compare-and-swap of a thread inside lock(), which lock() answers with a guard.
AcquiredBy(t) == tpc[t] = "cas" /\ tpc'[t] = "held"

\* A step that ends the life of the guard thread t holds (end of scope or unwinding).
GuardDestroyedBy(t) == HoldsGuard(t) /\ tpc'[t] \in {"idle", "panicked"}

\* C11: a new lock is unlocked; the flag goes from false to true only by a
\* successful compare-and-swap inside lock(), and from true to false only by the
\* destruction of the one guard that lock() returned; neither state is terminal:
\* an unlocked lock can be acquired by any thread at its compare-and-swap, and a
\* locked lock has a holder whose guard will be destroyed.
C11_StateMachine ==
    /\ locked = FALSE
    /\ [][/\ (~locked /\ locked') => \E t \in Threads : AcquiredBy(t)
          /\ (locked /\ ~locked') =>
                 \E t \in Threads : Holders = {t} /\ GuardDestroyedBy(t)
          /\ (\E t \in Threads : AcquiredBy(t)) => (~locked /\ locked')
          /\ (\E t \in Threads : GuardDestroyedBy(t)) => (locked /\ ~locked')]_vars
    /\ [](~locked => \A t \in Threads : tpc[t] = "cas" => ENABLED CasOk(t))
    /\ [](locked => \E t \in Threads : HoldsGuard(t) /\ ENABLED PanicUnwind(t))

\* The lock is held for the third time, after two full acquire/release cycles.
C11_Witness ==
    /\ locked
    /\ \E t \in Threads, u \in Threads :
           /\ t # u
           /\ tpc[t] = "held" /\ left[t] = 0 /\ iters = 2
           /\ left[u] = 1 /\ tpc[u] = "idle"

\* Thread t has read the guarded value through the guard lock() just returned.
HasRead(t) == tpc[t] = "write"

\* C12: what a thread reads through a guard right after lock() returned is the
\* value the guarded cell holds, with every write made so far visible to the
\* reader; and the cell is written only by the thread holding the one live
\* guard, so that value is the one the most recently dropped guard left (the
\* value given to new() when nothing was written before).
C12_Handoff ==
    /\ [](\A t \in Threads : HasRead(t) => (tmp[t] = cell /\ know[t] = ver))
    /\ [](Holders = {} => pub = ver)
    /\ [][(ver' # ver \/ cell' # cell) =>
              \E t \in Threads : Holders = {t} /\ HasRead(t) /\ HoldsGuard(t)']_vars

\* Thread t, in its first critical section, has read the 1 the other thread
\* left there before dropping its guard.
C12_Witness ==
    \E t \in Threads, u \in Threads :
        /\ t # u
        /\ HasRead(t) /\ tmp[t] = 1 /\ cell = 1
        /\ iters = 1 /\ left[t] = 0
        /\ tpc[u] = "idle" /\ left[u] = 0

\* C15: a thread that calls lock() while it holds a live guard of the same lock
\* never gets out of that call: it is inside lock() for ever after, the flag
\* stays true, its guard is never destroyed, and nothing reports the mistake
\* (the thread does not panic).
C15_ReentrantDeadlock ==
    /\ [](\A t \in outer : InLock(t) /\ locked /\ Holders = {t})
    /\ [][\A t \in outer : t \in outer' /\ tpc'[t] # "panicked"]_vars

\* The thread has polled the flag in its second call, with another thread
\* polling beside it.
C15_Witness ==
    \E t \in outer, u \in Threads :
        /\ u # t
        /\ tpc[t] = "spin" /\ spun
        /\ tpc[u] = "spin"

\* C21: test-and-test-and-set. A thread comes to its compare-and-swap only by a
\* load of the flag that returned false, and nothing of its own lies between
\* that load and the compare-and-swap; a thread polling a flag that is true
\* stays polling; a compare-and-swap either takes the flag from false to true
\* and returns the guard, or leaves the flag alone and sends the thread back
\* to the poll without a guard; a guard comes from nowhere else.
C21_TTASOrdering ==
    [][\A t \in Threads :
          /\ (tpc[t] # "cas" /\ tpc'[t] = "cas") =>
                 (tpc[t] = "spin" /\ ~locked /\ ~locked')
          /\ (tpc[t] = "spin" /\ locked) => tpc'[t] = "spin"
          /\ (tpc[t] = "cas" /\ tpc'[t] # "cas") =>
                 \/ tpc'[t] = "held" /\ ~locked /\ locked'
                 \/ tpc'[t] = "spin" /\ locked' = locked /\ ~HoldsGuard(t)'
          /\ (tpc[t] # "held" /\ tpc'[t] = "held") => tpc[t] = "cas"]_vars

\* Thread t read false and stands at its compare-and-swap, which can only fail
\* now: thread u acquired the lock in between, and a poll has found the flag true.
C21_Witness ==
    \E t \in Threads, u \in Threads :
        /\ tpc[t] = "cas" /\ locked
        /\ tpc[u] = "held"
        /\ spun

\* C22: a thread comes to hold a guard only by a step in which it stood at its
\* compare-and-swap and the flag went from false to true; a compare-and-swap
\* that fails, the flag being true or the weak compare-and-swap failing
\* spuriously on a false flag, changes neither the flag nor the guarded value
\* and leaves the thread without a guard; so after any number of spurious
\* failures there is still at most one guard, and the flag is true with it.
C22_SpuriousFailureSafe ==
    /\ [][\A t \in Threads :
             /\ (~HoldsGuard(t) /\ HoldsGuard(t)') =>
                    (tpc[t] = "cas" /\ ~locked /\ locked')
             /\ (tpc[t] = "cas" /\ tpc'[t] # "cas" /\ ~(~locked /\ locked')) =>
                    (locked' = locked /\ cell' = cell /\ ~HoldsGuard(t)')]_vars
    /\ [](weakFailed => (Cardinality(Holders) <= 1 /\ (Holders # {} => locked)))

\* A compare-and-swap failed spuriously; thread t, not first to the lock, is
\* back at the poll without a guard, while thread u writes under its guard.
C22_Witness ==
    \E t \in Threads, u \in Threads :
        /\ weakFailed
        /\ tpc[t] = "spin" /\ left[t] = iters - 1
        /\ tpc[u] = "write"
        /\ ver = 0

\* A step of thread t that leaves it inside lock(): the call, a poll, or a
\* compare-and-swap that failed.
WaitingStep(t) ==
    /\ InLock(t)'
    /\ \/ tpc'[t] # tpc[t]
       \/ tpc[t] = "spin" /\ spun' # spun

\* C23: a step of a thread that is inside lock() and has not won the
\* compare-and-swap changes neither the flag nor the guarded value (nor what
\* any thread may rely on of it); the guarded value is changed only by the
\* write of the thread holding the one live guard; the flag becomes false only
\* by the destruction of a guard.
C23_WaitingIsSideEffectFree ==
    [][/\ \A t \in Threads :
              WaitingStep(t) => UNCHANGED <<locked, cell, ver, pub, know, tmp>>
       /\ (cell' # cell \/ ver' # ver) =>
              \E t \in Threads :
                  Holders = {t} /\ tpc[t] = "write" /\ tpc'[t] = "wrote"
       /\ (locked /\ ~locked') =>
              \E t \in Threads : GuardDestroyedBy(t)]_vars

\* Thread t has polled the flag and found it true while thread u, under its
\* guard, has written the guarded value: the value is u's write alone.
C23_Witness ==
    \E t \in Threads, u \in Threads :
        /\ tpc[t] = "spin" /\ spun
        /\ tpc[u] = "wrote"
        /\ cell = 1 /\ ver = 1 /\ locked

(***************************************************************************)
(* example10_atomic_producer_consumer                                      *)
(*                                                                         *)
(* Two threads and three atomics. Every load is an Acquire load and every  *)
(* store a Release store; each is one step. The executions followed are    *)
(* the interleavings of these steps, which the memory model allows.        *)
(***************************************************************************)
PCThreads == {"producer", "consumer"}

\* AtomicI32::new(0): the payload before anything is produced.
DataInit == 0

PCInit ==
    /\ pdata = DataInit
    /\ ready = FALSE
    /\ consumed = FALSE
    /\ readyOf = 0
    /\ seenFlag = 0
    /\ value = 0
    /\ pcv = [th \in PCThreads |-> "wait"]
    /\ round = [th \in PCThreads |-> 1]
    /\ yielded = FALSE

\* The end of a loop body: the next iteration, or the end of the thread.
NextRound(th) ==
    /\ round' = [round EXCEPT ![th] = @ + 1]
    /\ pcv' = [pcv EXCEPT ![th] = IF round[th] = MaxItems THEN "done" ELSE "wait"]

\* Producer, lines 273-275: while consumed.load(Acquire) { yield_now() }.
ProducerWait ==
    /\ pcv["producer"] = "wait"
    /\ pcv' = [pcv EXCEPT !["producer"] = IF consumed THEN "wait" ELSE "store"]
    /\ yielded' = IF consumed THEN ~yielded ELSE yielded
    /\ UNCHANGED <<pdata, ready, consumed, readyOf, seenFlag, value, round>>
    /\ UNCHANGED notPCVars

\* Producer, line 278: data.store(i, Release).
ProducerStoreData ==
    /\ pcv["producer"] = "store"
    /\ pdata' = round["producer"]
    /\ pcv' = [pcv EXCEPT !["producer"] = "clear"]
    /\ UNCHANGED <<ready, consumed, readyOf, seenFlag, value, round>>
    /\ UNCHANGED yielded
    /\ UNCHANGED notPCVars

\* Producer, line 279: consumed.store(false, Release).
ProducerClearConsumed ==
    /\ pcv["producer"] = "clear"
    /\ consumed' = FALSE
    /\ pcv' = [pcv EXCEPT !["producer"] = "set"]
    /\ UNCHANGED <<pdata, ready, readyOf, seenFlag, value, round>>
    /\ UNCHANGED yielded
    /\ UNCHANGED notPCVars

\* Producer, line 280: ready.store(true, Release); the iteration ends.
ProducerSetReady ==
    /\ pcv["producer"] = "set"
    /\ ready' = TRUE
    /\ readyOf' = round["producer"]
    /\ NextRound("producer")
    /\ UNCHANGED <<pdata, consumed, seenFlag, value>>
    /\ UNCHANGED yielded
    /\ UNCHANGED notPCVars

\* Consumer, lines 289-291: while !ready.load(Acquire) { yield_now() }.
ConsumerWait ==
    /\ pcv["consumer"] = "wait"
    /\ pcv' = [pcv EXCEPT !["consumer"] = IF ready THEN "load" ELSE "wait"]
    /\ seenFlag' = IF ready THEN readyOf ELSE seenFlag
    /\ yielded' = IF ready THEN yielded ELSE ~yielded
    /\ UNCHANGED <<pdata, ready, consumed, readyOf, value, round>>
    /\ UNCHANGED notPCVars

\* Consumer, line 294: let value = data.load(Acquire).
ConsumerLoadData ==
    /\ pcv["consumer"] = "load"
    /\ value' = pdata
    /\ pcv' = [pcv EXCEPT !["consumer"] = "clear"]
    /\ UNCHANGED <<pdata, ready, consumed, readyOf, seenFlag, round>>
    /\ UNCHANGED yielded
    /\ UNCHANGED notPCVars

\* Consumer, line 295: ready.store(false, Release).
ConsumerClearReady ==
    /\ pcv["consumer"] = "clear"
    /\ ready' = FALSE
    /\ pcv' = [pcv EXCEPT !["consumer"] = "set"]
    /\ UNCHANGED <<pdata, consumed, readyOf, seenFlag, value, round>>
    /\ UNCHANGED yielded
    /\ UNCHANGED notPCVars

\* Consumer, line 296: consumed.store(true, Release); the iteration ends.
ConsumerSetConsumed ==
    /\ pcv["consumer"] = "set"
    /\ consumed' = TRUE
    /\ NextRound("consumer")
    /\ UNCHANGED <<pdata, ready, readyOf, seenFlag, value>>
    /\ UNCHANGED yielded
    /\ UNCHANGED notPCVars

PCNext ==
    \/ ProducerWait
    \/ ProducerStoreData
    \/ ProducerClearConsumed
    \/ ProducerSetReady
    \/ ConsumerWait
    \/ ConsumerLoadData
    \/ ConsumerClearReady
    \/ ConsumerSetConsumed

\* The consumer has read the payload after it saw the flag set.
HasLoaded == pcv["consumer"] \in {"clear", "set"}

\* C16 as stated: the reader that saw the ready flag set never reads the initial
\* payload; what it reads was written before the flag store it observed (the
\* items are stored in increasing order, item i before the i-th flag store).
C16_ReadyFlagHandoff ==
    HasLoaded => (value # DataInit /\ value <= seenFlag)

\* The consumer has read item i, or a later read.
HasConsumed(i) ==
    \/ round["consumer"] > i
    \/ round["consumer"] = i /\ HasLoaded

\* C27 as stated: the producer does not overwrite `data` with item i + 1 before
\* the consumer has read item i, and the consumer's k-th read gives k: it
\* reads 1, 2, 3, ... in that order, each once.
C27_Alternation ==
    /\ pdata > 1 => HasConsumed(pdata - 1)
    /\ HasLoaded => value = round["consumer"]

(***************************************************************************)
(* spawn_workers (src/concurrency/src/lib.rs)                              *)
(*                                                                         *)
(* The thread spawned in iteration w of the first loop is thread w. A task *)
(* either returns or panics; join() of a thread that panicked gives Err,   *)
(* on which unwrap() panics.                                               *)
(***************************************************************************)
Workers == 0..(MaxWorkers - 1)

WorkerStates == {"none", "spawned", "running", "done", "panicked"}

\* No clone of shared_data: the thread has not been spawned.
NoClone == 0

\* A closure that is given the number of threads spawned so far, itself included.
TaskIndexOneBased(i) == i + 1

\* `move || task_clone(data_clone, i)`: the index the closure captures in
\* iteration i.
TaskIndex(i) == i

\* A join that does not wait.
JoinDetached(w) == TRUE

\* handle.join(): it returns once the thread has ended.
JoinReady(w) == wst[w] \in {"done", "panicked"}

SWInitCommon ==
    /\ swpc = "spawn"
    /\ handles = <<>>
    /\ wst = [w \in Workers |-> "none"]
    /\ warg = [w \in Workers |-> 0]
    /\ wclone = [w \in Workers |-> NoClone]
    /\ calls = [i \in 0..MaxWorkers |-> 0]

\* spawn_workers is called with any count.
SWInit == SWInitCommon /\ count \in 0..MaxWorkers

\* The state of this component while the others are exercised.
SWIdle == SWInitCommon /\ count = 0

\* Lines 17-24, one iteration: clone the data and the task, spawn, push.
SwSpawn ==
    /\ swpc = "spawn"
    /\ Len(handles) < count
    /\ LET i == Len(handles)
       IN /\ wclone' = [wclone EXCEPT ![i] = i + 1]
          /\ warg' = [warg EXCEPT ![i] = TaskIndex(i)]
          /\ wst' = [wst EXCEPT ![i] = "spawned"]
          /\ handles' = Append(handles, i)
    /\ UNCHANGED <<count, swpc, calls>>
    /\ UNCHANGED notSWVars

\* Line 17: the range 0..count is exhausted.
SwSpawnEnd ==
    /\ swpc = "spawn"
    /\ Len(handles) = count
    /\ swpc' = "join"
    /\ UNCHANGED <<count, handles, wst, warg, wclone, calls>>
    /\ UNCHANGED notSWVars

\* Lines 20-22: the new thread starts and calls task_clone(data_clone, i).
WorkerStart(w) ==
    /\ wst[w] = "spawned"
    /\ wst' = [wst EXCEPT ![w] = "running"]
    /\ calls' = [calls EXCEPT ![warg[w]] = @ + 1]
    /\ UNCHANGED <<count, swpc, handles, warg, wclone>>
    /\ UNCHANGED notSWVars

\* The task returns, and with it the thread ends.
WorkerEnd(w) ==
    /\ wst[w] = "running"
    /\ wst' = [wst EXCEPT ![w] = "done"]
    /\ UNCHANGED <<count, swpc, handles, warg, wclone, calls>>
    /\ UNCHANGED notSWVars

\* The task panics: the thread unwinds and ends.
WorkerPanic(w) ==
    /\ wst[w] = "running"
    /\ wst' = [wst EXCEPT ![w] = "panicked"]
    /\ UNCHANGED <<count, swpc, handles, warg, wclone, calls>>
    /\ UNCHANGED notSWVars

\* Lines 26-28, one iteration: handle.join().unwrap().
SwJoin ==
    /\ swpc = "join"
    /\ handles # <<>>
    /\ JoinReady(Head(handles))
    /\ IF wst[Head(handles)] = "panicked"
       THEN swpc' = "panicked" /\ UNCHANGED handles
       ELSE handles' = Tail(handles) /\ UNCHANGED swpc
    /\ UNCHANGED <<count, wst, warg, wclone, calls>>
    /\ UNCHANGED notSWVars

\* Line 29: every handle has been joined; spawn_workers returns.
SwReturn ==
    /\ swpc = "join"
    /\ handles = <<>>
    /\ swpc' = "returned"
    /\ UNCHANGED <<count, handles, wst, warg, wclone, calls>>
    /\ UNCHANGED notSWVars

SWNext ==
    \/ SwSpawn
    \/ SwSpawnEnd
    \/ \E w \in Workers : WorkerStart(w)
    \/ \E w \in Workers : WorkerEnd(w)
    \/ \E w \in Workers : WorkerPanic(w)
    \/ SwJoin
    \/ SwReturn

\* The threads spawned so far.
Spawned == {w \in Workers : wst[w] # "none"}

\* C17: the task is never called twice with the same index nor with an index
\* outside 0..count-1; every thread spawned has a clone of the shared data of
\* its own and calls the task with its own index; and when spawn_workers has
\* returned, the task has been called exactly once for every index in
\* 0..count-1, on count threads, and every one of these calls has completed
\* (for count = 0: no call at all).
C17_SpawnWorkers ==
    /\ \A i \in 0..MaxWorkers : calls[i] <= 1 /\ (i >= count => calls[i] = 0)
    /\ \A w \in Spawned : w < count /\ warg[w] = w /\ wclone[w] # NoClone
    /\ \A w \in Spawned, v \in Spawned : w # v => wclone[w] # wclone[v]
    /\ swpc = "returned" =>
           /\ Cardinality(Spawned) = count
           /\ \A i \in 0..MaxWorkers : calls[i] = IF i < count THEN 1 ELSE 0
           /\ \A w \in Spawned : wst[w] = "done"

\* spawn_workers has returned from a call with the largest count.
C17_Witness ==
    /\ swpc = "returned"
    /\ count = MaxWorkers
    /\ \A i \in Workers : calls[i] = 1 /\ wst[i] = "done"

(***************************************************************************)
(* Mutex + Condvar: test_condvar_notification                              *)
(*                                                                         *)
(* The spawned thread (the notifier) locks, sets the flag and notifies;    *)
(* the main thread (the waiter) locks and waits while the flag is false.   *)
(* Condvar::wait releases the mutex and blocks in one atomic step; it      *)
(* returns, with the mutex locked again, after a notification or after a   *)
(* spurious wake-up. notify_one wakes one blocked thread, if there is one. *)
(***************************************************************************)
CvThreads == {"notifier", "waiter"}

\* A notification that wakes nobody.
NotifyNobody(q) == {}

\* cvar.notify_one(): the threads it wakes, out of q, the blocked ones. The
\* choice is the condition variable's.
NotifyOne(q) == IF q = {} THEN {} ELSE {CHOOSE t \in q : TRUE}

CVInit ==
    /\ mtx = "none"
    /\ started = FALSE
    /\ cvq = {}
    /\ cvpc = [t \in CvThreads |-> IF t = "waiter" THEN "spawn" ELSE "unspawned"]
    /\ spurious = 0

\* Line 71: the main thread spawns the notifier.
CvSpawn ==
    /\ cvpc["waiter"] = "spawn"
    /\ cvpc' = [t \in CvThreads |-> "lock"]
    /\ UNCHANGED <<mtx, started, cvq, spurious>>
    /\ UNCHANGED notCVVars

\* lock.lock().unwrap(): lines 73 and 79.
CvLock(t) ==
    /\ cvpc[t] = "lock"
    /\ mtx = "none"
    /\ mtx' = t
    /\ cvpc' = [cvpc EXCEPT ![t] = IF t = "notifier" THEN "set" ELSE "check"]
    /\ UNCHANGED <<started, cvq, spurious>>
    /\ UNCHANGED notCVVars

\* Line 74: *started = true.
NotifierSet ==
    /\ cvpc["notifier"] = "set"
    /\ started' = TRUE
    /\ cvpc' = [cvpc EXCEPT !["notifier"] = "notify"]
    /\ UNCHANGED <<mtx, cvq, spurious>>
    /\ UNCHANGED notCVVars

\* Line 75: cvar.notify_one().
NotifierNotify ==
    /\ cvpc["notifier"] = "notify"
    /\ cvq' = cvq \ NotifyOne(cvq)
    /\ cvpc' = [t \in CvThreads |->
                   IF t = "notifier" THEN "unlock"
                   ELSE IF t \in NotifyOne(cvq) THEN "relock" ELSE cvpc[t]]
    /\ UNCHANGED <<mtx, started, spurious>>
    /\ UNCHANGED notCVVars

\* Line 81: while !*started; line 82: cvar.wait(started), its first half.
WaiterCheck ==
    /\ cvpc["waiter"] = "check"
    /\ IF started
       THEN /\ cvpc' = [cvpc EXCEPT !["waiter"] = "assert"]
            /\ UNCHANGED <<mtx, cvq>>
       ELSE /\ cvpc' = [cvpc EXCEPT !["waiter"] = "waiting"]
            /\ mtx' = "none"
            /\ cvq' = cvq \cup {"waiter"}
    /\ UNCHANGED <<started, spurious>>
    /\ UNCHANGED notCVVars

\* A thread blocked in wait() wakes up though nobody notified it.
SpuriousWake(t) ==
    /\ cvpc[t] = "waiting"
    /\ t \in cvq
    /\ spurious < MaxSpurious
    /\ spurious' = spurious + 1
    /\ cvq' = cvq \ {t}
    /\ cvpc' = [cvpc EXCEPT ![t] = "relock"]
    /\ UNCHANGED <<mtx, started>>
    /\ UNCHANGED notCVVars

\* Line 82, second half: the woken thread locks the mutex again and wait() returns.
CvRelock(t) ==
    /\ cvpc[t] = "relock"
    /\ mtx = "none"
    /\ mtx' = t
    /\ cvpc' = [cvpc EXCEPT ![t] = "check"]
    /\ UNCHANGED <<started, cvq, spurious>>
    /\ UNCHANGED notCVVars

\* Line 84: assert!(*started).
WaiterAssert ==
    /\ cvpc["waiter"] = "assert"
    /\ cvpc' = [cvpc EXCEPT !["waiter"] = IF started THEN "unlock" ELSE "panicked"]
    /\ UNCHANGED <<mtx, started, cvq, spurious>>
    /\ UNCHANGED notCVVars

\* Lines 76 and 85: the guard goes out of scope and the mutex is unlocked.
CvUnlock(t) ==
    /\ cvpc[t] = "unlock"
    /\ mtx = t
    /\ mtx' = "none"
    /\ cvpc' = [cvpc EXCEPT ![t] = "done"]
    /\ UNCHANGED <<started, cvq, spurious>>
    /\ UNCHANGED notCVVars

CVNext ==
    \/ CvSpawn
    \/ \E t \in CvThreads : CvLock(t)
    \/ NotifierSet
    \/ NotifierNotify
    \/ WaiterCheck
    \/ \E t \in CvThreads : SpuriousWake(t)
    \/ \E t \in CvThreads : CvRelock(t)
    \/ WaiterAssert
    \/ \E t \in CvThreads : CvUnlock(t)

\* The steps of thread t that the scheduler owes it: all but a spurious wake-up.
CvStep(t) ==
    \/ CvLock(t)
    \/ (t = "notifier" /\ (NotifierSet \/ NotifierNotify))
    \/ (t = "waiter" /\ (CvSpawn \/ WaiterCheck \/ WaiterAssert))
    \/ CvRelock(t)
    \/ CvUnlock(t)

CVFairness == \A t \in CvThreads : WF_vars(CvStep(t))

(***************************************************************************)
(* sorting.rs                                                              *)
(*                                                                         *)
(* Slices are sequences; the source's indices count from 0, so element i   *)
(* of the slice is arr[i + 1] here. Every loop of the source is a          *)
(* recursive operator over the loop's variables. THRESHOLD is 47 in the    *)
(* source; Threshold is its value in the model, small enough for slices of *)
(* the model's lengths to reach partition.                                 *)
(***************************************************************************)
SortValues == (0 - SortMaxElem)..SortMaxElem

SortInputs == UNION {[1..n -> SortValues] : n \in 0..SortMaxLen}

\* arr[i].
At(arr, i) == arr[i + 1]

\* A swap that only copies one way.
SwapLossy(arr, i, j) == [arr EXCEPT ![i + 1] = arr[j + 1]]

\* arr.swap(i, j).
Swap(arr, i, j) == [arr EXCEPT ![i + 1] = arr[j + 1], ![j + 1] = arr[i + 1]]

\* A bubble sort that stops after its first pass.
BubbleStopsAlways(swapped) == TRUE

\* bubble_sort, lines 13-15: if !swapped { break; }.
BubbleStops(swapped) == ~swapped

\* bubble_sort, lines 7-12: the inner loop, from j on; lim is n - 1 - i. The
\* result is the slice and `swapped`.
RECURSIVE BubbleInner(_, _, _, _)
BubbleInner(arr, j, lim, swapped) ==
    IF j >= lim THEN <<arr, swapped>>
    ELSE IF At(arr, j) > At(arr, j + 1)
         THEN BubbleInner(Swap(arr, j, j + 1), j + 1, lim, TRUE)
         ELSE BubbleInner(arr, j + 1, lim, swapped)

\* bubble_sort, lines 5-16: the outer loop, from i on.
RECURSIVE BubbleOuter(_, _, _)
BubbleOuter(arr, i, n) ==
    IF i >= n - 1 THEN arr
    ELSE LET pass == BubbleInner(arr, 0, n - 1 - i, FALSE)
         IN IF BubbleStops(pass[2]) THEN pass[1] ELSE BubbleOuter(pass[1], i + 1, n)

\* bubble_sort, for a slice that is not empty.
bubble_sort(arr) == BubbleOuter(arr, 0, Len(arr))

\* selection_sort, lines 23-27: the inner loop, from j on.
RECURSIVE SelectMin(_, _, _, _)
SelectMin(arr, j, n, min_idx) ==
    IF j >= n THEN min_idx
    ELSE SelectMin(arr, j + 1, n, IF At(arr, j) < At(arr, min_idx) THEN j ELSE min_idx)

\* selection_sort, lines 21-29: the outer loop, from i on.
RECURSIVE SelectOuter(_, _, _)
SelectOuter(arr, i, n) ==
    IF i >= n - 1 THEN arr
    ELSE SelectOuter(Swap(arr, i, SelectMin(arr, i + 1, n, i)), i + 1, n)

\* selection_sort, for a slice that is not empty.
selection_sort(arr) == SelectOuter(arr, 0, Len(arr))

\* insertion_sort_range, lines 43-47: the while loop, from j on, and arr[j] = key.
RECURSIVE InsertShift(_, _, _, _)
InsertShift(arr, j, key, start) ==
    IF j > start /\ At(arr, j - 1) > key
    THEN InsertShift([arr EXCEPT ![j + 1] = At(arr, j - 1)], j - 1, key, start)
    ELSE [arr EXCEPT ![j + 1] = key]

\* insertion_sort_range, lines 40-48: the for loop, from i on.
RECURSIVE InsertOuter(_, _, _, _)
InsertOuter(arr, i, start, end) ==
    IF i >= end THEN arr
    ELSE InsertOuter(InsertShift(arr, i, At(arr, i), start), i + 1, start, end)

insertion_sort_range(arr, start, end) ==
    IF start >= end THEN arr ELSE InsertOuter(arr, start + 1, start, end)

insertion_sort(arr) == insertion_sort_range(arr, 0, Len(arr))

\* Whether i is an index of the slice: arr[i] and arr.swap(i, _) panic when it
\* is not.
InBounds(arr, i) == 0 <= i /\ i < Len(arr)

\* A right scan that never moves.
ScanRightStays(arr, l, r, pivot_value) == <<r, TRUE>>

\* partition, lines 84-86: while l <= r && arr[l] < pivot_value { l += 1 }.
\* The result is l and whether the loop ran without a panic.
RECURSIVE ScanLeft(_, _, _, _)
ScanLeft(arr, l, r, pivot_value) ==
    IF l <= r
    THEN IF ~InBounds(arr, l) THEN <<l, FALSE>>
         ELSE IF At(arr, l) < pivot_value
              THEN ScanLeft(arr, l + 1, r, pivot_value)
              ELSE <<l, TRUE>>
    ELSE <<l, TRUE>>

\* partition, lines 87-89: while l <= r && arr[r] > pivot_value { r -= 1 }.
\* The result is r and whether the loop ran without a panic. r is a usize:
\* at r = 0, `r -= 1` panics in a build with overflow checks, and wraps to
\* usize::MAX in one without, where the next arr[r] panics.
RECURSIVE ScanRight(_, _, _, _)
ScanRight(arr, l, r, pivot_value) ==
    IF l <= r
    THEN IF ~InBounds(arr, r) THEN <<r, FALSE>>
         ELSE IF At(arr, r) > pivot_value
              THEN IF r = 0 THEN <<r, FALSE>>
                   ELSE ScanRight(arr, l, r - 1, pivot_value)
              ELSE <<r, TRUE>>
    ELSE <<r, TRUE>>

\* partition, lines 83-96: the loop; the result is the slice, r, and whether
\* the loop ran without a panic.
RECURSIVE PartitionLoop(_, _, _, _)
PartitionLoop(arr, l, r, pivot_value) ==
    LET sl == ScanLeft(arr, l, r, pivot_value)
        sr == ScanRight(arr, sl[1], r, pivot_value)
        l1 == sl[1]
        r1 == sr[1]
    IN IF ~sl[2] THEN <<arr, r, FALSE>>
       ELSE IF ~sr[2] THEN <<arr, r1, FALSE>>
       ELSE IF l1 >= r1 THEN <<arr, r1, TRUE>>
       ELSE IF ~(InBounds(arr, l1) /\ InBounds(arr, r1)) THEN <<arr, r1, FALSE>>
       ELSE PartitionLoop(Swap(arr, l1, r1), l1 + 1, r1 - 1, pivot_value)

\* partition, with pivot_index the outcome of rand::random_range(start..end):
\* the slice afterwards, the index returned, and whether the call returned
\* (TRUE) or panicked (FALSE). random_range panics on an empty range.
partition(arr, start, end, pivot_index) ==
    IF ~(start < end /\ InBounds(arr, pivot_index) /\ InBounds(arr, start))
    THEN <<arr, start, FALSE>>
    ELSE LET pivot_value == At(arr, pivot_index)
             res == PartitionLoop(Swap(arr, pivot_index, start), start + 1, end - 1,
                                  pivot_value)
         IN IF ~(res[3] /\ InBounds(res[1], res[2])) THEN <<res[1], res[2], FALSE>>
            ELSE <<Swap(res[1], start, res[2]), res[2], TRUE>>

\* quick_sort_recursion: the slices it can leave, one for each way the random
\* pivots can fall.
RECURSIVE quick_sort_recursion(_, _, _)
quick_sort_recursion(arr, start, end) ==
    IF end - start < Threshold THEN {insertion_sort_range(arr, start, end)}
    ELSE UNION {
           LET part == partition(arr, start, end, pivot_index)
           IN UNION {quick_sort_recursion(left1, part[2] + 1, end) :
                         left1 \in quick_sort_recursion(part[1], start, part[2])} :
           pivot_index \in start..(end - 1)}

quick_sort(arr) == IF Len(arr) < 2 THEN {arr} ELSE quick_sort_recursion(arr, 0, Len(arr))

\* No call of partition has been made.
NoCall == <<0, 0, 0, 0>>

SortInit ==
    /\ sinput \in SortInputs
    /\ sarr = sinput
    /\ salgo = "none"
    /\ sdone = "none"
    /\ scall = NoCall

\* The state of this component while the others are exercised.
SortIdle ==
    /\ sinput = <<>>
    /\ sarr = <<>>
    /\ salgo = "none"
    /\ sdone = "none"
    /\ scall = NoCall

\* A call of bubble_sort. On an empty slice, n - 1 overflows: the build with
\* overflow checks panics there, the one without at arr[0] > arr[1].
CallBubbleSort ==
    /\ salgo = "none"
    /\ salgo' = "bubble_sort"
    /\ IF Len(sinput) = 0
       THEN sdone' = "panicked" /\ UNCHANGED sarr
       ELSE sdone' = "returned" /\ sarr' = bubble_sort(sinput)
    /\ UNCHANGED <<sinput, scall>>
    /\ UNCHANGED notSortVars

\* A call of selection_sort. On an empty slice, n - 1 overflows: the build with
\* overflow checks panics there, the one without at arr.swap(0, 0).
CallSelectionSort ==
    /\ salgo = "none"
    /\ salgo' = "selection_sort"
    /\ IF Len(sinput) = 0
       THEN sdone' = "panicked" /\ UNCHANGED sarr
       ELSE sdone' = "returned" /\ sarr' = selection_sort(sinput)
    /\ UNCHANGED <<sinput, scall>>
    /\ UNCHANGED notSortVars

CallInsertionSort ==
    /\ salgo = "none"
    /\ salgo' = "insertion_sort"
    /\ sdone' = "returned"
    /\ sarr' = insertion_sort(sinput)
    /\ UNCHANGED <<sinput, scall>>
    /\ UNCHANGED notSortVars

CallQuickSort ==
    /\ salgo = "none"
    /\ salgo' = "quick_sort"
    /\ sdone' = "returned"
    /\ sarr' \in quick_sort(sinput)
    /\ UNCHANGED <<sinput, scall>>
    /\ UNCHANGED notSortVars

\* A call partition(arr, start, end) on a range of the slice that is not empty,
\* with any pivot index random_range(start..end) can draw.
CallPartition ==
    /\ salgo = "none"
    /\ \E start \in 0..Len(sinput), end \in 0..Len(sinput) :
           /\ start < end
           /\ \E pivot_index \in start..(end - 1) :
                  LET res == partition(sinput, start, end, pivot_index)
                  IN /\ salgo' = "partition"
                     /\ sdone' = IF res[3] THEN "returned" ELSE "panicked"
                     /\ sarr' = res[1]
                     /\ scall' = <<start, end, pivot_index, res[2]>>
    /\ UNCHANGED sinput
    /\ UNCHANGED notSortVars

PartitionNext ==
    \/ CallPartition

SortNext ==
    \/ CallBubbleSort
    \/ CallSelectionSort
    \/ CallInsertionSort
    \/ CallQuickSort

\* How often v occurs in the slice.
Occurrences(arr, v) == Cardinality({i \in 1..Len(arr) : arr[i] = v})

\* expected.sort_unstable() of the tests: the slice in non-decreasing order
\* with the elements of the input, each as often as in the input.
IsAscendingSortOf(arr, input) ==
    /\ Len(arr) = Len(input)
    /\ \A i \in 1..(Len(arr) - 1) : arr[i] <= arr[i + 1]
    /\ \A v \in SortValues : Occurrences(arr, v) = Occurrences(input, v)

\* C19: called on a slice that is not empty, each of quick_sort (whatever the
\* pivots), bubble_sort, selection_sort and insertion_sort returns and leaves
\* the slice equal to the ascending sort of the input.
C19_SortingAgreement ==
    (salgo # "none" /\ Len(sinput) > 0) =>
        (sdone = "returned" /\ IsAscendingSortOf(sarr, sinput))

\* quick_sort has sorted a slice with a duplicate that is long enough for
\* partition, and that was not in order.
C19_Witness ==
    /\ salgo = "quick_sort"
    /\ Len(sinput) > Threshold
    /\ \E i \in 1..Len(sinput), j \in 1..Len(sinput) : i < j /\ sinput[i] = sinput[j]
    /\ \E i \in 1..(Len(sinput) - 1) : sinput[i] > sinput[i + 1]
    /\ sarr # sinput
    /\ IsAscendingSortOf(sarr, sinput)

(***************************************************************************)
(* cleaner.rs: clean_empty_directories                                     *)
(*                                                                         *)
(* The tree under target_root is a set of entries, each a directory or a   *)
(* file (anything that is not a directory), each inside target_root or     *)
(* inside another entry that is a directory. WalkDir with                  *)
(* contents_first(true) yields every entry once, depth first, a directory  *)
(* after its contents; the order among siblings is the file system's.      *)
(* fs::remove_dir removes an empty directory; it fails on one that is not  *)
(* empty, and may fail for another reason (permissions, a mount point):    *)
(* `denied` is the directory on which it does.                             *)
(***************************************************************************)
FsNodes == 1..MaxNodes

\* target_root.
FsRoot == 0

\* remove_dir fails for no other reason than a directory not being empty.
NoneDenied == 0

IsDir(n) == IF n = FsRoot THEN TRUE ELSE fkind[n] = "dir"

Children(n) == {m \in FsNodes : fparent[m] = n}

\* Entry m is n or is below n.
RECURSIVE IsUnder(_, _)
IsUnder(m, n) ==
    IF m = n THEN TRUE
    ELSE IF m = FsRoot THEN FALSE
    ELSE IsUnder(fparent[m], n)

Subtree(n) == {m \in FsNodes : IsUnder(m, n)}

\* A walk that yields a directory before its contents.
ParentsFirst(n) == IF n = FsRoot THEN TRUE ELSE fparent[n] \in visited

\* contents_first(true): a directory is yielded after its contents.
ContentsFirst(n) == Children(n) \subseteq visited

\* Depth first: a directory whose contents have been yielded in part is
\* finished before anything outside it is yielded.
DepthFirst(n) ==
    \A m \in FsNodes : (m \notin visited /\ Subtree(m) \cap visited # {}) => IsUnder(n, m)

\* fs::remove_dir(path) returns Ok.
RemoveDirOk(n) == Children(n) \cap fexists = {} /\ n # denied

CleanInitCommon ==
    /\ fexists = FsNodes \cup {FsRoot}
    /\ visited = {}
    /\ cret = "running"

\* Any tree of MaxNodes entries under target_root.
CleanInit ==
    /\ CleanInitCommon
    /\ fkind \in [FsNodes -> {"dir", "file"}]
    /\ fparent \in [FsNodes -> FsNodes \cup {FsRoot}]
    /\ \A n \in FsNodes : fparent[n] < n /\ IsDir(fparent[n])
    /\ denied \in {n \in FsNodes : fkind[n] = "dir"} \cup {NoneDenied}

\* The state of this component while the others are exercised.
CleanIdle ==
    /\ CleanInitCommon
    /\ fkind = [n \in FsNodes |-> "file"]
    /\ fparent = [n \in FsNodes |-> FsRoot]
    /\ denied = NoneDenied

\* Lines 19-35, one iteration of the loop, for the entry the walker yields:
\* a directory other than target_root is removed if remove_dir succeeds;
\* an error is printed or ignored, and the loop goes on.
VisitEntry(n) ==
    /\ cret = "running"
    /\ n \notin visited
    /\ ContentsFirst(n)
    /\ DepthFirst(n)
    /\ visited' = visited \cup {n}
    /\ fexists' = IF IsDir(n) /\ n # FsRoot /\ RemoveDirOk(n)
                  THEN fexists \ {n}
                  ELSE fexists
    /\ UNCHANGED <<fparent, fkind, denied, cret>>
    /\ UNCHANGED notCleanVars

\* Line 36: the walker is exhausted; Ok(()).
CleanReturn ==
    /\ cret = "running"
    /\ visited = FsNodes \cup {FsRoot}
    /\ cret' = "ok"
    /\ UNCHANGED <<fparent, fkind, denied, fexists, visited>>
    /\ UNCHANGED notCleanVars

CleanNext ==
    \/ \E n \in FsNodes \cup {FsRoot} : VisitEntry(n)
    \/ CleanReturn

\* The subtree of n contains a file (before the call as after: files are
\* never removed).
HasFile(n) == \E m \in Subtree(n) : fkind[m] = "file"

\* The directories strictly below target_root.
Dirs == {n \in FsNodes : fkind[n] = "dir"}

PPThreads == {"producer", "consumer"}

\* `for i in 1..5`, lines 13 and 35: the last value of i.
Rounds == 4

\* A thread that never waits.
MustWaitNever(t) == FALSE

\* `while *started` (producer, line 16), `while !*started` (consumer, line 38).
MustWait(t) == IF t = "producer" THEN full ELSE ~full

\* `*started = true` (line 25), `*started = false` (line 46).
FlagSetBy(t) == t = "producer"

PPInit ==
    /\ ppMtx = "none"
    /\ full = FALSE
    /\ ppq = {}
    /\ ppc = [t \in PPThreads |-> "lock"]
    /\ ppRound = [t \in PPThreads |-> 1]
    /\ ppSpurious = 0

\* lock.lock().unwrap(): lines 14 and 36.
PpLock(t) ==
    /\ ppc[t] = "lock"
    /\ ppMtx = "none"
    /\ ppMtx' = t
    /\ ppc' = [ppc EXCEPT ![t] = "check"]
    /\ UNCHANGED <<full, ppq, ppRound, ppSpurious>>
    /\ UNCHANGED notPPVars

\* The loop condition, lines 16 and 38, and the first half of cvar.wait(),
\* lines 17 and 39: the mutex is released and the thread blocks.
PpCheck(t) ==
    /\ ppc[t] = "check"
    /\ IF MustWait(t)
       THEN /\ ppc' = [ppc EXCEPT ![t] = "waiting"]
            /\ ppMtx' = "none"
            /\ ppq' = ppq \cup {t}
       ELSE /\ ppc' = [ppc EXCEPT ![t] = "work"]
            /\ UNCHANGED <<ppMtx, ppq>>
    /\ UNCHANGED <<full, ppRound, ppSpurious>>
    /\ UNCHANGED notPPVars

\* A thread blocked in wait() wakes up though nobody notified it.
PpSpuriousWake(t) ==
    /\ ppc[t] = "waiting"
    /\ t \in ppq
    /\ ppSpurious < MaxSpurious
    /\ ppSpurious' = ppSpurious + 1
    /\ ppq' = ppq \ {t}
    /\ ppc' = [ppc EXCEPT ![t] = "relock"]
    /\ UNCHANGED <<ppMtx, full, ppRound>>
    /\ UNCHANGED notPPVars

\* The second half of cvar.wait(): the woken thread locks the mutex again.
PpRelock(t) ==
    /\ ppc[t] = "relock"
    /\ ppMtx = "none"
    /\ ppMtx' = t
    /\ ppc' = [ppc EXCEPT ![t] = "check"]
    /\ UNCHANGED <<full, ppq, ppRound, ppSpurious>>
    /\ UNCHANGED notPPVars

\* Lines 21-22 and 43: the item is produced / consumed (println, and the
\* producer's sleep), the mutex held.
PpWork(t) ==
    /\ ppc[t] = "work"
    /\ ppc' = [ppc EXCEPT ![t] = "set"]
    /\ UNCHANGED <<ppMtx, full, ppq, ppRound, ppSpurious>>
    /\ UNCHANGED notPPVars

\* Lines 25 and 46: the flag is flipped.
PpSet(t) ==
    /\ ppc[t] = "set"
    /\ full' = FlagSetBy(t)
    /\ ppc' = [ppc EXCEPT ![t] = "notify"]
    /\ UNCHANGED <<ppMtx, ppq, ppRound, ppSpurious>>
    /\ UNCHANGED notPPVars

\* Lines 28 and 49: cvar.notify_one().
PpNotify(t) ==
    /\ ppc[t] = "notify"
    /\ ppq' = ppq \ NotifyOne(ppq)
    /\ ppc' = [u \in PPThreads |->
                  IF u = t THEN "unlock"
                  ELSE IF u \in NotifyOne(ppq) THEN "relock" ELSE ppc[u]]
    /\ UNCHANGED <<ppMtx, full, ppRound, ppSpurious>>
    /\ UNCHANGED notPPVars

\* Lines 29 and 50: the guard goes out of scope, the mutex is unlocked and the
\* iteration ends.
PpUnlock(t) ==
    /\ ppc[t] = "unlock"
    /\ ppMtx = t
    /\ ppMtx' = "none"
    /\ ppRound' = [ppRound EXCEPT ![t] = @ + 1]
    /\ ppc' = [ppc EXCEPT ![t] = IF ppRound[t] = Rounds THEN "done" ELSE "lock"]
    /\ UNCHANGED <<full, ppq, ppSpurious>>
    /\ UNCHANGED notPPVars

PPNext ==
    \/ \E t \in PPThreads : PpLock(t)
    \/ \E t \in PPThreads : PpCheck(t)
    \/ \E t \in PPThreads : PpSpuriousWake(t)
    \/ \E t \in PPThreads : PpRelock(t)
    \/ \E t \in PPThreads : PpWork(t)
    \/ \E t \in PPThreads : PpSet(t)
    \/ \E t \in PPThreads : PpNotify(t)
    \/ \E t \in PPThreads : PpUnlock(t)

\* The steps of thread t that the scheduler owes it: all but a spurious wake-up.
PpStep(t) ==
    \/ PpLock(t)
    \/ PpCheck(t)
    \/ PpRelock(t)
    \/ PpWork(t)
    \/ PpSet(t)
    \/ PpNotify(t)
    \/ PpUnlock(t)

PPFairness == \A t \in PPThreads : WF_vars(PpStep(t))

(***************************************************************************)
(* retry_with_backoff (src/networking/src/bin/async_retry.rs)              *)
(*                                                                         *)
(* The function is called with any max_retries and initial_delay within    *)
(* the bounds; each invocation of `operation` ends in Ok or in Err, as the *)
(* operation pleases. A Duration is DelayBits wide in the model, and its   *)
(* multiplication panics on overflow.                                      *)
(***************************************************************************)

\* The longest Duration.
DelayMax == 2 ^ DelayBits - 1

\* The result of the n-th invocation, named by n.
NoResult == <<"none", 0>>

\* A guard that lets the last attempt retry too.
MayRetryAlways(a) == a <= maxRetries

\* Line 65: `Err(e) if attempt < max_retries`.
MayRetry(a) == a < maxRetries

\* A constant back-off: the delay is never doubled.
DelayKept(d) == d

\* Line 68: `delay *= 2`, which panics when the product overflows.
DelayOverflows(d) == d * 2 > DelayMax
Doubled(d) == d * 2

RetryInitCommon ==
    /\ rpc = "call"
    /\ attempt = 0
    /\ delay = initialDelay
    /\ outcomes = <<>>
    /\ sleeps = <<>>
    /\ ret = NoResult

\* Lines 52-62: the call, `let mut delay = initial_delay`, the first iteration.
RetryInit ==
    /\ maxRetries \in 0..MaxRetries
    /\ initialDelay \in 0..MaxDelay
    /\ RetryInitCommon

\* The state of this component while another one is exercised.
RetryIdle ==
    /\ maxRetries = 0
    /\ initialDelay = 0
    /\ RetryInitCommon

\* Lines 63-64: operation().await gives Ok(result); return Ok(result).
RetryOk ==
    /\ rpc = "call"
    /\ outcomes' = Append(outcomes, "ok")
    /\ ret' = <<"Ok", Len(outcomes) + 1>>
    /\ rpc' = "returned"
    /\ UNCHANGED <<maxRetries, initialDelay, attempt, delay, sleeps>>
    /\ UNCHANGED notRetryVars

\* Lines 63, 65-66 and 70: operation().await gives Err(e); the guard of line 65
\* decides between the retry and `return Err(e)`.
RetryErr ==
    /\ rpc = "call"
    /\ outcomes' = Append(outcomes, "err")
    /\ IF MayRetry(attempt)
       THEN /\ rpc' = "sleep"
            /\ UNCHANGED ret
       ELSE /\ rpc' = "returned"
            /\ ret' = <<"Err", Len(outcomes) + 1>>
    /\ UNCHANGED <<maxRetries, initialDelay, attempt, delay, sleeps>>
    /\ UNCHANGED notRetryVars

\* Line 67: sleep(delay).await.
RetrySleep ==
    /\ rpc = "sleep"
    /\ sleeps' = Append(sleeps, delay)
    /\ rpc' = "double"
    /\ UNCHANGED <<maxRetries, initialDelay, attempt, delay, outcomes, ret>>
    /\ UNCHANGED notRetryVars

\* Line 68: delay *= 2; then line 62, the next value of `attempt`, and line 73
\* when the range is exhausted.
RetryDouble ==
    /\ rpc = "double"
    /\ IF DelayOverflows(delay)
       THEN /\ rpc' = "panicked"
            /\ UNCHANGED <<delay, attempt>>
       ELSE /\ delay' = Doubled(delay)
            /\ attempt' = attempt + 1
            /\ rpc' = IF attempt + 1 <= maxRetries THEN "call" ELSE "unreachable"
    /\ UNCHANGED <<maxRetries, initialDelay, outcomes, sleeps, ret>>
    /\ UNCHANGED notRetryVars

RetryNext ==
    \/ RetryOk
    \/ RetryErr
    \/ RetrySleep
    \/ RetryDouble

(***************************************************************************)
(* Specifications                                                          *)
(***************************************************************************)

\* MyArc: handles to blocks, created, cloned, read and dropped in any order.
InitArc == ArcInit /\ LockIdle /\ PCInit /\ SWIdle /\ CVInit /\ SortIdle /\ CleanIdle
    /\ PPInit /\ RetryIdle

SpecArc == InitArc /\ [][ArcNext]_vars

\* MyArc with a counter of any width: the count may wrap.
InitArcWrap ==
    ArcInitAnyWidth /\ LockIdle /\ PCInit /\ SWIdle /\ CVInit /\ SortIdle /\ CleanIdle
    /\ PPInit /\ RetryIdle

\* The operations that touch the count; the values read through deref() are
\* not followed.
ArcNextCount ==
    \/ \E v \in Values : ArcNew(v)
    \/ \E h \in Handles : CloneFetchAdd(h)
    \/ \E h \in Handles : CloneReturn(h)
    \/ \E h \in Handles : DropFetchSub(h)
    \/ \E h \in Handles : DropFence(h)
    \/ \E h \in Handles : DropPayload(h)
    \/ \E h \in Handles : DropDealloc(h)

SpecArcWrap == InitArcWrap /\ [][ArcNextCount]_vars

\* MyArc with payload writes: the owners of the handles write to the payload
\* before they release; the values read through deref() are not followed.
ArcNextHB ==
    \/ \E v \in Values : ArcNew(v)
    \/ \E h \in Handles : CloneFetchAdd(h)
    \/ \E h \in Handles : CloneReturn(h)
    \/ \E h \in Handles : PayloadWrite(h)
    \/ \E h \in Handles : DropFetchSub(h)
    \/ \E h \in Handles : DropFence(h)
    \/ \E h \in Handles : DropPayload(h)
    \/ \E h \in Handles : DropDealloc(h)

SpecArcHB == InitArc /\ [][ArcNextHB]_vars

\* The producer and the consumer of example 10.
InitPC == ArcInit /\ LockIdle /\ PCInit /\ SWIdle /\ CVInit /\ SortIdle /\ CleanIdle
    /\ PPInit /\ RetryIdle

SpecPC == InitPC /\ [][PCNext]_vars

\* The steps of each of the two threads.
ProducerStep ==
    \/ ProducerWait
    \/ ProducerStoreData
    \/ ProducerClearConsumed
    \/ ProducerSetReady

ConsumerStep ==
    \/ ConsumerWait
    \/ ConsumerLoadData
    \/ ConsumerClearReady
    \/ ConsumerSetConsumed

\* Both are threads of the operating system: each keeps being scheduled.
PCFairness == WF_vars(ProducerStep) /\ WF_vars(ConsumerStep)

SpecPCFair == InitPC /\ [][PCNext]_vars /\ PCFairness

\* C28 as stated: in every fair interleaving both threads finish their
\* iterations, so that both join() calls return.
C28_Termination ==
    <>(pcv["producer"] = "done" /\ pcv["consumer"] = "done")

\* spawn_workers, called with any count, and the threads it spawns.
InitSW == ArcInit /\ LockIdle /\ PCInit /\ SWInit /\ CVInit /\ SortIdle /\ CleanIdle
    /\ PPInit /\ RetryIdle

SpecSW == InitSW /\ [][SWNext]_vars

\* The sorting functions, each called on any slice within the bounds.
InitSort == ArcInit /\ LockIdle /\ PCInit /\ SWIdle /\ CVInit /\ SortInit /\ CleanIdle
    /\ PPInit /\ RetryIdle

SpecSort == InitSort /\ [][SortNext]_vars

\* partition, called on every range of every slice that is not empty.
SpecPartition == InitSort /\ [][PartitionNext]_vars

\* How often v occurs among arr[start..end).
OccurrencesIn(arr, start, end, v) ==
    Cardinality({i \in start..(end - 1) : At(arr, i) = v})

\* C32: a call of partition on a range [start, end) of at least two elements,
\* whatever the pivot index drawn, returns without a panic (no index out of
\* bounds, no underflow) an index r with start <= r < end such that arr[r] is
\* the pivot value, every element of [start, r) is <= the pivot, every element
\* of (r, end) is >= the pivot, the elements of [start, end) are those of
\* before, each as often, and the elements outside [start, end) are untouched.
C32_PartitionPostcondition ==
    (salgo = "partition" /\ scall[2] - scall[1] >= 2) =>
        LET start == scall[1]
            end == scall[2]
            pivot_value == At(sinput, scall[3])
            r == scall[4]
        IN /\ sdone = "returned"
           /\ start <= r /\ r < end
           /\ Len(sarr) = Len(sinput)
           /\ At(sarr, r) = pivot_value
           /\ \A i \in start..(r - 1) : At(sarr, i) <= pivot_value
           /\ \A i \in (r + 1)..(end - 1) : At(sarr, i) >= pivot_value
           /\ \A v \in SortValues :
                  OccurrencesIn(sarr, start, end, v) = OccurrencesIn(sinput, start, end, v)
           /\ \A i \in 0..(Len(sinput) - 1) :
                  (i < start \/ i >= end) => At(sarr, i) = At(sinput, i)

\* partition(&mut [1, 0, 1, -1], 0, 4) with the pivot drawn at index 1: both
\* scans stop at once, the loop swaps arr[1] with arr[3], the right scan then
\* steps back over a larger element, and the pivot lands at index 1.
C32_Witness ==
    /\ salgo = "partition"
    /\ sinput = <<1, 0, 1, 0 - 1>>
    /\ scall = <<0, 4, 1, 1>>
    /\ sdone = "returned"
    /\ sarr = <<0 - 1, 0, 1, 1>>


\* clean_empty_directories, called on any tree within the bounds.
InitClean ==
    ArcInit /\ LockIdle /\ PCInit /\ SWIdle /\ CVInit /\ SortIdle /\ CleanInit
    /\ PPInit /\ RetryIdle

SpecClean == InitClean /\ [][CleanNext]_vars

\* SpinLock: T threads of K iterations each.
InitLock == ArcInit /\ LockInit /\ PCInit /\ SWIdle /\ CVInit /\ SortIdle /\ CleanIdle
    /\ PPInit /\ RetryIdle

SpecLock == InitLock /\ [][LockNext]_vars

\* SpinLock with threads that may call lock() while holding its guard.
LockNextReentrant ==
    \/ \E t \in Threads : LockCall(t)
    \/ \E t \in Threads : SpinLoad(t)
    \/ \E t \in Threads : CasOk(t)
    \/ \E t \in Threads : CasFail(t)
    \/ \E t \in Threads : ReLock(t)
    \/ \E t \in Threads : GuardRead(t)
    \/ \E t \in Threads : GuardWrite(t)
    \/ \E t \in Threads : GuardDrop(t)
    \/ \E t \in Threads : PanicUnwind(t)

SpecReentrant == InitLock /\ [][LockNextReentrant]_vars

\* The lock protocol alone: the critical sections are empty (the guard is
\* dropped, or the thread panics, right after lock() returned), and some of the
\* threads may call lock() without end.
LockNextFair ==
    \/ \E t \in Threads : LockCall(t)
    \/ \E t \in Threads : SpinLoad(t)
    \/ \E t \in Threads : CasOk(t)
    \/ \E t \in Threads : CasFail(t)
    \/ \E t \in Threads : GuardDrop(t)
    \/ \E t \in Threads : PanicUnwind(t)

\* The steps of thread t in that protocol.
ProtocolStep(t) ==
    \/ LockCall(t)
    \/ SpinLoad(t)
    \/ CasOk(t)
    \/ CasFail(t)
    \/ GuardDrop(t)
    \/ PanicUnwind(t)

\* Fair scheduling: every thread that can take a step eventually takes one, and
\* a compare-and-swap that finds the flag false again and again does not fail
\* spuriously for ever.
LockFairness ==
    \A t \in Threads : WF_vars(ProtocolStep(t)) /\ SF_vars(CasOk(t))

InitLockLoop == ArcInit /\ LockInitLoop /\ PCInit /\ SWIdle /\ CVInit /\ SortIdle /\ CleanIdle
    /\ PPInit /\ RetryIdle

SpecLockFair == InitLockLoop /\ [][LockNextFair]_vars /\ LockFairness

\* C7 as stated: under fair scheduling and bounded critical sections, every
\* call to lock() eventually returns a guard.
C7_EveryLockReturns ==
    \A t \in Threads : InLock(t) ~> (tpc[t] = "held")

\* C7, amended: a call to lock() eventually returns a guard provided no other
\* thread keeps calling lock() for ever.
C7_LockReturnsAmongFiniteCallers ==
    \A t \in Threads :
        (InLock(t) /\ \A u \in Threads \ {t} : ~loops[u]) ~> (tpc[t] = "held")

C7_Witness ==
    \E t \in Threads, u \in Threads :
        /\ t # u
        /\ tpc[t] = "spin" /\ HoldsGuard(u)
        /\ ~loops[u] /\ ~loops[t]

\* Some thread is inside lock().
Contended == \E t \in Threads : InLock(t)

\* C26: under fair scheduling (every thread that can step does, and a
\* compare-and-swap that finds the flag false again and again does not fail for
\* ever), whenever the flag is false and some thread is inside lock(), some
\* thread eventually holds the guard; and in no state is the lock free with
\* every contender unable to move: one at the poll can read the flag, one at
\* the compare-and-swap can win it.
C26_DeadlockFree ==
    /\ (~locked /\ Contended) ~> (\E t \in Threads : HoldsGuard(t))
    /\ [](( ~locked /\ Contended) =>
             \A t \in Threads :
                 /\ tpc[t] = "spin" => ENABLED SpinLoad(t)
                 /\ tpc[t] = "cas" => ENABLED CasOk(t))

\* The lock is free again after a thread that never stops calling lock() has
\* released it, and another thread stands at its compare-and-swap.
C26_Witness ==
    \E t \in Threads, u \in Threads :
        /\ t # u
        /\ ~locked
        /\ tpc[t] = "cas" /\ ~loops[t]
        /\ tpc[u] = "idle" /\ loops[u] /\ weakFailed

\* The producer and the consumer of example_condvar, fairly scheduled.
InitPP == ArcInit /\ LockIdle /\ PCInit /\ SWIdle /\ CVInit /\ SortIdle /\ CleanIdle
    /\ PPInit /\ RetryIdle

SpecPP == InitPP /\ [][PPNext]_vars /\ PPFairness

\* retry_with_backoff, called with any arguments within the bounds.
InitRetry == ArcInit /\ LockIdle /\ PCInit /\ SWIdle /\ CVInit /\ SortIdle /\ CleanIdle
    /\ PPInit /\ RetryInit

SpecRetry == InitRetry /\ [][RetryNext]_vars

\* How many items thread t has produced / consumed: it has passed line 21 / 43
\* in every earlier iteration, and in this one if it is beyond that line.
Worked(t) ==
    (ppRound[t] - 1) + (IF ppc[t] \in {"set", "notify", "unlock"} THEN 1 ELSE 0)

\* Thread t produces / consumes an item in this step.
Works(t) == ppc[t] = "work" /\ ppc'[t] = "set"

\* C29: the producer produces item i only with the flag false and every earlier
\* item consumed; the consumer consumes its i-th item only with the flag true,
\* and that item is item i, just produced; so produce(i), consume(i),
\* produce(i + 1) follow each other, for i = 1..4; and under fair scheduling
\* both threads end, after four items produced and four consumed, with the
\* flag false.
C29_PingPong ==
    /\ [][Works("producer") =>
              /\ ~full
              /\ Worked("consumer") = Worked("producer")
              /\ Worked("producer")' = ppRound["producer"]]_vars
    /\ [][Works("consumer") =>
              /\ full
              /\ Worked("producer") = Worked("consumer") + 1
              /\ Worked("consumer")' = ppRound["consumer"]
              /\ ppRound["consumer"] = Worked("producer")]_vars
    /\ [](\A t \in PPThreads : ppRound[t] <= Rounds + 1)
    /\ <>[](/\ \A t \in PPThreads : ppc[t] = "done"
            /\ Worked("producer") = Rounds
            /\ Worked("consumer") = Rounds
            /\ ~full)

\* The consumer has consumed the fourth item and has yet to clear the flag; the
\* producer has ended; no wake-up so far was spurious.
C29_Witness ==
    /\ ppc["consumer"] = "set" /\ ppRound["consumer"] = Rounds
    /\ ppc["producer"] = "done"
    /\ ppSpurious = 0
    /\ full

\* The number of invocations of operation so far, and whether all of them failed.
Invoked == Len(outcomes)
AllFailed == \A i \in 1..Len(outcomes) : outcomes[i] = "err"

\* C30: operation is invoked at most max_retries + 1 times, and at least once
\* before the function ends in any way; an Ok ends the function at once, with
\* that result and no further invocation; when max_retries + 1 invocations
\* have all failed the function has returned the error of the last one, and it
\* returns an error in no other case; the line after the loop is never reached.
C30_AttemptBound ==
    /\ rpc # "unreachable"
    /\ Invoked <= maxRetries + 1
    /\ rpc # "call" => Invoked >= 1
    /\ ~AllFailed =>
           /\ rpc = "returned"
           /\ ret = <<"Ok", Invoked>>
           /\ outcomes[Invoked] = "ok"
           /\ \A i \in 1..(Invoked - 1) : outcomes[i] = "err"
    /\ (AllFailed /\ Invoked = maxRetries + 1) =>
           (rpc = "returned" /\ ret = <<"Err", maxRetries + 1>>)
    /\ (rpc = "returned" /\ ret[1] = "Err") =>
           (AllFailed /\ Invoked = maxRetries + 1)
    /\ rpc = "returned" <=> ret # NoResult

\* Called with max_retries = 2 and a delay of one second, the function has
\* invoked the operation three times, slept one and two seconds in between,
\* and returned the third error.
C30_Witness ==
    /\ maxRetries = 2 /\ initialDelay = 1
    /\ rpc = "returned"
    /\ ret = <<"Err", 3>>
    /\ sleeps = <<1, 2>>

\* The function has ended: it returned, or it panicked.
RetryEnded == rpc \in {"returned", "panicked"}

\* Every sleep made so far follows a failed invocation, is one of at most
\* max_retries, and the k-th of them lasts initial_delay * 2^(k-1).
SleepsOnSchedule ==
    /\ Len(sleeps) <= Invoked
    /\ Len(sleeps) <= maxRetries
    /\ \A k \in 1..Len(sleeps) :
           /\ outcomes[k] = "err"
           /\ sleeps[k] = initialDelay * 2 ^ (k - 1)

\* C31 as stated: the sleeps are on schedule, and each lies between a failed
\* attempt and the attempt that follows it: when the function has ended, it
\* has slept once less than it has invoked the operation, so that no sleep
\* follows the last attempt, successful or not.
C31_DelaySchedule ==
    /\ SleepsOnSchedule
    /\ rpc = "call" => Len(sleeps) = Invoked
    /\ RetryEnded => Len(sleeps) = Invoked - 1

\* C31, amended: the same, as long as `delay *= 2` does not overflow. When it
\* does, after the k-th sleep, the function panics there: that sleep, itself on
\* schedule, is followed by no attempt. The function panics in no other case.
C31_DelayScheduleUnlessOverflow ==
    /\ SleepsOnSchedule
    /\ rpc = "call" => Len(sleeps) = Invoked
    /\ rpc = "returned" => Len(sleeps) = Invoked - 1
    /\ rpc = "panicked" =>
           /\ Len(sleeps) = Invoked
           /\ AllFailed
           /\ DelayOverflows(sleeps[Len(sleeps)])
    /\ \A k \in 1..Len(sleeps) :
           (DelayOverflows(sleeps[k]) /\ rpc # "double") =>
               (rpc = "panicked" /\ k = Len(sleeps))

\* As in main: two failures, then a success, with one second to start from;
\* the function slept one second, then two, and returned the third result.
C31_Witness ==
    /\ maxRetries = 3 /\ initialDelay = 1
    /\ rpc = "returned"
    /\ ret = <<"Ok", 3>>
    /\ sleeps = <<1, 2>>

\* The notifier and the waiter of test_condvar_notification, fairly scheduled.
InitCV == ArcInit /\ LockIdle /\ PCInit /\ SWIdle /\ CVInit /\ SortIdle /\ CleanIdle
    /\ PPInit /\ RetryIdle

SpecCV == InitCV /\ [][CVNext]_vars /\ CVFairness

\* The notifier has set the flag and called notify_one.
HasNotified == cvpc["notifier"] \in {"unlock", "done"}

\* The waiter has left its loop.
HasProceeded == cvpc["waiter"] \in {"assert", "unlock", "done"}

\* C18: the waiter leaves its loop only with the flag true; and once the
\* notifier has set the flag under the mutex and called notify_one, the waiter
\* eventually leaves its loop and ends, whether the notifier ran before the
\* waiter locked, or after the waiter had begun to wait.
C18_NoLostWakeup ==
    /\ [](HasProceeded => started)
    /\ [](cvpc["waiter"] # "panicked")
    /\ HasNotified ~> (cvpc["waiter"] = "done" /\ started)

\* The waiter was blocked in wait() when the notifier notified: it has been
\* woken by the notification, not spuriously, and has yet to lock again.
C18_Witness ==
    /\ cvpc["waiter"] = "relock"
    /\ spurious = 0
    /\ cvpc["notifier"] = "unlock"
    /\ started

====
